---- MODULE Spec2Model ----
(***************************************************************************)
(* A model of CleanShift's core: the relocation engine (mover.py), the     *)
(* retention cleaners (cleaner.py, env_cleaner.py) and the directory       *)
(* scanner (analyzer.py).                                                  *)
(*                                                                         *)
(* A path is a sequence of components, <<"C:", "proj", "a.bin">>; the      *)
(* filesystem is a function from the existing paths to their nodes.  Where *)
(* the code works on the text of a path (substring tests, lower-casing)    *)
(* the model builds the text with PathStr and works on the string.         *)
(***************************************************************************)
EXTENDS Integers, Sequences, FiniteSets, TLC

VARIABLES
    fs,        \* the filesystem: [existing paths -> node]
    locked,    \* the files the OS refuses to delete (in use, no permission)
    services,  \* the background services: [name -> running]
    env,       \* the process environment: TEMP, TMP, LOCALAPPDATA, APPDATA
    last       \* the last call: operation, arguments, result, state before

vars == <<fs, locked, services, env, last>>

(***************************************************************************)
(* Bounds of the model.                                                    *)
(***************************************************************************)
MaxLinkHops == 4

(***************************************************************************)
(* Paths and nodes.                                                        *)
(***************************************************************************)
Dir == [kind |-> "dir", size |-> 0, target |-> <<>>]

File(n) == [kind |-> "file", size |-> n, target |-> <<>>]

Link(t) == [kind |-> "link", size |-> 0, target |-> t]

Parent(p) == SubSeq(p, 1, Len(p) - 1)

Name(p) == p[Len(p)]

Join(p, n) == Append(p, n)

\* q is p or lies below p
IsUnder(p, q) == Len(q) >= Len(p) /\ SubSeq(q, 1, Len(p)) = p

Below(f, p) == {q \in DOMAIN f : IsUnder(p, q)}

\* the subtree at p, keyed by the paths relative to p
Subtree(f, p) ==
    [r \in {SubSeq(q, Len(p) + 1, Len(q)) : q \in Below(f, p)} |-> f[p \o r]]

Without(f, gone) == [q \in DOMAIN f \ gone |-> f[q]]

\* f with the tree t (keyed by relative paths) put at p
Graft(f, p, t) ==
    [q \in DOMAIN f \cup {p \o r : r \in DOMAIN t} |->
        IF IsUnder(p, q) /\ SubSeq(q, Len(p) + 1, Len(q)) \in DOMAIN t
        THEN t[SubSeq(q, Len(p) + 1, Len(q))]
        ELSE f[q]]

FilesBelow(f, p) == {q \in Below(f, p) : f[q].kind = "file"}

(***************************************************************************)
(* pathlib / os.path predicates.  exists and is_dir follow links;          *)
(* is_symlink looks at the path itself.                                    *)
(***************************************************************************)
NoPath == <<"?">>

RECURSIVE Deref(_, _, _)
Deref(f, p, fuel) ==
    IF p \notin DOMAIN f THEN NoPath
    ELSE IF f[p].kind # "link" THEN p
    ELSE IF fuel = 0 THEN NoPath
    ELSE Deref(f, f[p].target, fuel - 1)

Exists(f, p) == Deref(f, p, MaxLinkHops) # NoPath

IsDir(f, p) == Exists(f, p) /\ f[Deref(f, p, MaxLinkHops)].kind = "dir"

IsSymlink(f, p) == p \in DOMAIN f /\ f[p].kind = "link"

\* Path.resolve(): follows links as far as they lead, also to a missing path
RECURSIVE ResolvePath(_, _, _)
ResolvePath(f, p, fuel) ==
    IF p \in DOMAIN f /\ f[p].kind = "link" /\ fuel > 0
    THEN ResolvePath(f, f[p].target, fuel - 1)
    ELSE p

IsFile(f, p) == Exists(f, p) /\ f[Deref(f, p, MaxLinkHops)].kind = "file"

Children(f, p) == {q \in DOMAIN f : Len(q) = Len(p) + 1 /\ IsUnder(p, q)}

(***************************************************************************)
(* The text of a path, and the string tests the code makes on it.          *)
(***************************************************************************)
Sep == "\\"

RECURSIVE JoinFrom(_, _)
JoinFrom(p, i) ==
    IF i > Len(p) THEN "" ELSE Sep \o p[i] \o JoinFrom(p, i + 1)

\* str(Path) / os.path.join of the components: "C:\", "C:\proj", "Temp\x"
PathStr(p) ==
    IF p = <<>> THEN ""
    ELSE IF Len(p) = 1
         THEN (IF SubSeq(p[1], Len(p[1]), Len(p[1])) = ":" THEN p[1] \o Sep ELSE p[1])
         ELSE p[1] \o JoinFrom(p, 2)

\* sub in s
Contains(s, sub) ==
    \E i \in 1..(Len(s) - Len(sub) + 1) : SubSeq(s, i, i + Len(sub) - 1) = sub

(***************************************************************************)
(* Sizes and deletion, as the cleaners use them.                           *)
(***************************************************************************)
\* os.path.getsize: the size of the file the path leads to; 0 stands for the
\* OSError the callers skip (a dangling link)
StatSize(f, q) == IF IsFile(f, q) THEN f[Deref(f, q, MaxLinkHops)].size ELSE 0

RECURSIVE SumSizes(_, _)
SumSizes(f, S) ==
    IF S = {} THEN 0
    ELSE LET q == CHOOSE x \in S : TRUE
         IN  StatSize(f, q) + SumSizes(f, S \ {q})

\* what os.walk(top) lists as filenames: everything below top that is not a
\* directory and not a link to one.  os.walk does not descend into links.
WalkedFiles(f, top) ==
    {q \in Below(f, top) : f[q].kind = "file" \/ (f[q].kind = "link" /\ ~IsDir(f, q))}

\* The directories os.walk(top) yields when the OS refuses to list the
\* directories in denied: os.walk is called without onerror, so a directory
\* whose listing raises is passed over, with all that is below it.
WalkedDirs(f, denied, top) ==
    {d \in Below(f, top) :
        /\ f[d].kind = "dir"
        /\ \A k \in Len(top)..Len(d) : SubSeq(d, 1, k) \notin denied}

\* a walk that gives up entirely when one entry below top cannot be read
Measured_AllOrNothing(f, denied, top) ==
    IF Below(f, top) \cap denied # {} THEN {}
    ELSE WalkedFiles(f, top)

\* a walk that also enters the directories that links below top lead to
Measured_ThroughLinks(f, denied, top) ==
    WalkedFiles(f, top)
    \cup UNION {WalkedFiles(f, Deref(f, l, MaxLinkHops)) :
                  l \in {q \in Below(f, top) : f[q].kind = "link" /\ IsDir(f, q)}}

\* The files whose size the loops of _get_directory_size add up: those os.walk
\* lists, less the ones whose os.path.getsize raises ("continue").
Measured(f, denied, top) ==
    {q \in WalkedFiles(f, top) : Parent(q) \in WalkedDirs(f, denied, top) /\ q \notin denied}

\* No entry is unreadable: the cleaners are run on trees they can read.
NoneDenied == {}

\* SystemCleaner._get_directory_size, EnvironmentCleaner._get_directory_size
GetDirectorySize(f, denied, p) ==
    IF ~IsDir(f, p) THEN 0
    ELSE SumSizes(f, Measured(f, denied, Deref(f, p, MaxLinkHops)))

\* shutil.rmtree(p, ignore_errors=True): what it removes.  It refuses a link
\* and a path that is no directory; below a directory it removes what the OS
\* lets it remove, and a directory stays when something below it stays.
RmtreeGone(f, p, lk) ==
    IF p \notin DOMAIN f \/ f[p].kind # "dir" THEN {}
    ELSE {q \in Below(f, p) : ~\E s \in Below(f, p) \cap lk : IsUnder(q, s)}

Rmtree(f, p, lk) == Without(f, RmtreeGone(f, p, lk))

(***************************************************************************)
(* The primitives the mover calls.  Each returns the filesystem it leaves, *)
(* whether it raised, and the external commands it ran.  What the          *)
(* environment decides (a refused permission, a failed copy) is an         *)
(* argument, chosen by the caller's action.                                *)
(***************************************************************************)
Outcome(f, raised) == [fs |-> f, raised |-> raised]

\* Path.mkdir(exist_ok=True), parents=False
Mkdir(f, p, permitted) ==
    IF p \in DOMAIN f
    THEN Outcome(f, ~IsDir(f, p))
    ELSE IF ~IsDir(f, Parent(p)) \/ ~permitted
         THEN Outcome(f, TRUE)
         ELSE Outcome(Graft(f, p, <<>> :> Dir), FALSE)

MoveOutcomes == {"ok", "error", "copy_failed", "delete_failed"}

\* a move that removes the source although the copy was not complete
ShutilMove_RemovesSource(f, src, dst, o, bad) ==
    LET real_dst == IF IsDir(f, dst) THEN Join(dst, Name(src)) ELSE dst
        tree == Subtree(f, src)
        partial == [r \in {r \in DOMAIN tree : (src \o r) \notin bad} |-> tree[r]]
    IN  IF src \notin DOMAIN f \/ IsUnder(src, dst)
           \/ real_dst \in DOMAIN f
           \/ ~IsDir(f, Parent(real_dst))
        THEN Outcome(f, TRUE)
        ELSE Outcome(Graft(Without(f, Below(f, src)), real_dst, partial), o # "ok")

\* shutil.move(src, dst).  Both callers pass a dst whose parent exists.  It
\* raises, moving nothing, when src is missing, when dst lies inside src, and
\* when the place it would move to is taken (os.rename on Windows replaces
\* nothing).
\* "ok": os.rename, or copy and delete, went through.
\* "error": nothing could be moved (the source is in use, access denied).
\* "copy_failed": across volumes, copytree could not copy the files in bad;
\*                it copies the rest, raises, and the source is not removed.
\* "delete_failed": across volumes, copytree copied everything and rmtree
\*                of the source then raised: the files in bad, and the
\*                directories above them, are still at the source.
ShutilMove(f, src, dst, o, bad) ==
    LET real_dst == IF IsDir(f, dst) THEN Join(dst, Name(src)) ELSE dst
        tree == Subtree(f, src)
        partial == [r \in {r \in DOMAIN tree : (src \o r) \notin bad} |-> tree[r]]
        deleted == {q \in Below(f, src) : ~\E b \in bad : IsUnder(q, b)}
    IN  IF src \notin DOMAIN f \/ IsUnder(src, dst)
           \/ real_dst \in DOMAIN f
           \/ ~IsDir(f, Parent(real_dst))
        THEN Outcome(f, TRUE)
        ELSE IF o = "ok"
        THEN Outcome(Graft(Without(f, Below(f, src)), real_dst, tree), FALSE)
        ELSE IF o = "copy_failed" /\ bad # {} /\ f[src].kind = "dir"
                /\ src[1] # real_dst[1]
        THEN Outcome(Graft(f, real_dst, partial), TRUE)
        ELSE IF o = "delete_failed" /\ bad # {} /\ f[src].kind = "dir"
                /\ src[1] # real_dst[1]
        THEN Outcome(Graft(Without(f, deleted), real_dst, tree), TRUE)
        ELSE Outcome(f, TRUE)

\* PackageMover._create_symlink: mklink /D link target.  TRUE when the command
\* exits with 0, FALSE otherwise (also when it could not be started).
CreateSymlink(f, target, link, granted) ==
    IF granted /\ link \notin DOMAIN f /\ IsDir(f, Parent(link))
    THEN [fs |-> Graft(f, link, <<>> :> Link(target)), ok |-> TRUE]
    ELSE [fs |-> f, ok |-> FALSE]

StagingName == "CleanShift_Moved"

TargetBase(drive) == Join(drive, StagingName)

TargetPath(source, drive) == Join(TargetBase(drive), Name(source))

\* a move that does not look whether the source is there
SourceExists_Always(f, source) == TRUE

SourceExists(f, source) == Exists(f, source)

\* a move that does not look whether the target path is taken
MoveTargetExists_Never(f, target_path) == FALSE

MoveTargetExists(f, target_path) == Exists(f, target_path)

Result(f, ret, cmds) == [fs |-> f, ret |-> ret, cmds |-> cmds]

\* The value move_with_symlink returns once shutil.move has gone through:
\* the result of _create_symlink is not looked at.
MoveReturn(linked) == TRUE

\* a dry run that looks whether the target path is free
DryRunReturn_ChecksTarget(f, target_path) == ~Exists(f, target_path)

\* What a dry run of move_with_symlink returns for a source that exists: it
\* prints the would-be move and returns True, before the target is looked at.
DryRunReturn(f, target_path) == TRUE

\* PackageMover.move_with_symlink
MoveWithSymlink(f, source, drive, dry_run, permitted, o, bad, granted) ==
    LET target_base == TargetBase(drive)
        target_path == TargetPath(source, drive)
        made == Mkdir(f, target_base, permitted)
        moved == ShutilMove(made.fs, source, target_path, o, bad)
        link == CreateSymlink(moved.fs, target_path, source, granted)
    IN  IF ~SourceExists(f, source) THEN Result(f, FALSE, <<>>)
        ELSE IF dry_run THEN Result(f, DryRunReturn(f, target_path), <<>>)
        ELSE IF made.raised THEN Result(made.fs, FALSE, <<>>)
        ELSE IF MoveTargetExists(made.fs, target_path)
             THEN Result(made.fs, FALSE, <<>>)
        ELSE IF moved.raised THEN Result(moved.fs, FALSE, <<>>)
        ELSE Result(link.fs, MoveReturn(link.ok), <<"mklink">>)

IsLinkToRestore(f, symlink_path) == IsSymlink(f, symlink_path)

\* PackageMover.restore_symlink
RestoreSymlink(f, symlink_path, dry_run, permitted, o, bad) ==
    LET target == ResolvePath(f, symlink_path, MaxLinkHops)
        unlinked == Without(f, {symlink_path})
        moved == ShutilMove(unlinked, target, symlink_path, o, bad)
    IN  IF ~IsLinkToRestore(f, symlink_path) THEN Result(f, FALSE, <<>>)
        ELSE IF dry_run THEN Result(f, TRUE, <<>>)
        ELSE IF ~permitted THEN Result(f, FALSE, <<>>)
        ELSE IF moved.raised THEN Result(moved.fs, FALSE, <<>>)
        ELSE Result(moved.fs, TRUE, <<>>)

(***************************************************************************)
(* SystemCleaner (cleaner.py).  An environment variable that is not set    *)
(* reads as '', here <<>>; os.path.join then gives a relative path.        *)
(***************************************************************************)
WindowsTemp == <<"C:", "Windows", "Temp">>

WindowsPrefetch == <<"C:", "Windows", "Prefetch">>

SoftwareDist == <<"C:", "Windows", "SoftwareDistribution", "Download">>

\* SystemCleaner.__init__: self.temp_paths
TempPaths(e) ==
    <<e.TEMP, e.TMP, WindowsTemp, WindowsPrefetch, e.LOCALAPPDATA \o <<"Temp">>>>

\* SystemCleaner.__init__: self.browser_cache_paths
BrowserCachePaths(e) ==
    <<e.LOCALAPPDATA \o <<"Google", "Chrome", "User Data", "Default", "Cache">>,
      e.LOCALAPPDATA \o <<"Microsoft", "Edge", "User Data", "Default", "Cache">>,
      e.APPDATA \o <<"Mozilla", "Firefox", "Profiles">>>>

RECURSIVE SumDirSizes(_, _)
SumDirSizes(f, S) ==
    IF S = {} THEN 0
    ELSE LET d == CHOOSE x \in S : TRUE
         IN  GetDirectorySize(f, NoneDenied, d) + SumDirSizes(f, S \ {d})

Freed(f, n) == [fs |-> f, freed |-> n]

\* cleaners that delete in a dry run too
Deletes_Always(dry_run) == TRUE

\* whether the cleaners delete: "if not dry_run"
Deletes(dry_run) == ~dry_run

\* clean_temp_files, the body of the loop for one temp_path.  A file whose
\* os.remove raises is skipped before its size is added; a directory's size
\* is added whatever rmtree could remove.
CleanTempDir(f, lk, temp_path, dry_run) ==
    LET items == Children(f, Deref(f, temp_path, MaxLinkHops))
        files == {q \in items : IsFile(f, q)}
        dirs == {q \in items : IsDir(f, q)}
        counted == {q \in files : ~Deletes(dry_run) \/ q \notin lk}
        gone == IF Deletes(dry_run)
                THEN (files \ lk) \cup UNION {RmtreeGone(f, d, lk) : d \in dirs}
                ELSE {}
    IN  IF temp_path = <<>> \/ ~IsDir(f, temp_path) THEN Freed(f, 0)
        ELSE Freed(Without(f, gone), SumSizes(f, counted) + SumDirSizes(f, dirs))

RECURSIVE CleanTempFrom(_, _, _, _, _)
CleanTempFrom(f, lk, paths, i, dry_run) ==
    IF i > Len(paths) THEN Freed(f, 0)
    ELSE LET r == CleanTempDir(f, lk, paths[i], dry_run)
             rest == CleanTempFrom(r.fs, lk, paths, i + 1, dry_run)
         IN  Freed(rest.fs, r.freed + rest.freed)

\* SystemCleaner.clean_temp_files
CleanTempFiles(f, lk, e, dry_run) == CleanTempFrom(f, lk, TempPaths(e), 1, dry_run)

\* clean_browser_cache, the body of the loop for one cache_path
CleanCachePath(f, lk, cache_path, dry_run) ==
    LET profiles == Children(f, Deref(f, cache_path, MaxLinkHops))
        caches == {c \in {Join(pr, "cache2") : pr \in profiles} : Exists(f, c)}
        gone == UNION {RmtreeGone(f, c, lk) : c \in caches}
    IN  IF ~Exists(f, cache_path) THEN Freed(f, 0)
        ELSE IF Contains(PathStr(cache_path), "Firefox")
        THEN IF ~IsDir(f, cache_path) THEN Freed(f, 0)
             ELSE Freed(IF Deletes(dry_run) THEN Without(f, gone) ELSE f,
                        SumDirSizes(f, caches))
        ELSE Freed(IF Deletes(dry_run) THEN Rmtree(f, cache_path, lk) ELSE f,
                   GetDirectorySize(f, NoneDenied, cache_path))

RECURSIVE CleanCacheFrom(_, _, _, _, _)
CleanCacheFrom(f, lk, paths, i, dry_run) ==
    IF i > Len(paths) THEN Freed(f, 0)
    ELSE LET r == CleanCachePath(f, lk, paths[i], dry_run)
             rest == CleanCacheFrom(r.fs, lk, paths, i + 1, dry_run)
         IN  Freed(rest.fs, r.freed + rest.freed)

\* SystemCleaner.clean_browser_cache
CleanBrowserCache(f, lk, e, dry_run) ==
    CleanCacheFrom(f, lk, BrowserCachePaths(e), 1, dry_run)

ServiceOrder == <<"wuauserv", "cryptSvc", "bits", "msiserver">>

StopCmds == [i \in 1..Len(ServiceOrder) |-> "net stop " \o ServiceOrder[i]]

StartCmds == [i \in 1..Len(ServiceOrder) |-> "net start " \o ServiceOrder[i]]

ToolOutcomes == {"ok", "nonzero", "timeout", "absent"}

\* where a service stands in the order the commands are run in
ServiceIndex(s) == CHOOSE i \in 1..Len(ServiceOrder) : ServiceOrder[i] = s

\* How many of the "net start" commands are attempted: they follow the stops
\* and the deletion inside one try block, so an exception before them skips
\* them all, and one of them that cannot be started skips those after it.
StartsAttempted(stops_attempted, unlaunched) ==
    IF unlaunched = 0 THEN Len(ServiceOrder)
    ELSE IF unlaunched > Len(ServiceOrder) THEN unlaunched - Len(ServiceOrder)
    ELSE 0

\* SystemCleaner.clean_system_cache.  cleanmgr: how the disk-cleanup tool
\* ended ("timeout" and "absent" make subprocess.run raise); unlaunched: the
\* position, among the eight net commands in the order they are run, of the
\* one that cannot be started and makes subprocess.run raise (0: none);
\* stop_fails, start_fails: the services whose stop, start command exits
\* without effect.
CleanSystemCache(f, lk, svc, dry_run, cleanmgr, unlaunched, stop_fails, start_fails) ==
    LET n == Len(ServiceOrder)
        size == IF Exists(f, SoftwareDist)
                THEN GetDirectorySize(f, NoneDenied, SoftwareDist) ELSE 0
        stops_attempted == IF cleanmgr \in {"timeout", "absent"} THEN 0
                           ELSE IF unlaunched = 0 \/ unlaunched > n THEN n
                           ELSE unlaunched
        stops_run == IF unlaunched \in 1..n /\ stops_attempted > 0
                     THEN unlaunched - 1 ELSE stops_attempted
        deletes == stops_run = n
        starts_attempted == IF cleanmgr \in {"timeout", "absent"} THEN 0
                            ELSE StartsAttempted(stops_attempted, unlaunched)
        starts_run == IF unlaunched > n /\ starts_attempted = unlaunched - n
                      THEN starts_attempted - 1 ELSE starts_attempted
        stopped == [s \in DOMAIN svc |->
                      svc[s] /\ (s \in stop_fails \/ ServiceIndex(s) > stops_run)]
        started == [s \in DOMAIN svc |->
                      stopped[s] \/ (ServiceIndex(s) <= starts_run /\ s \notin start_fails)]
        cleared == IF Exists(f, SoftwareDist) THEN Rmtree(f, SoftwareDist, lk) ELSE f
    IN  IF ~Deletes(dry_run)
        THEN [fs |-> f, services |-> svc, ret |-> size, cmds |-> <<>>]
        ELSE [fs |-> IF deletes THEN cleared ELSE f,
              services |-> started,
              ret |-> IF deletes THEN size ELSE 0,
              cmds |-> <<"cleanmgr">> \o SubSeq(StopCmds, 1, stops_attempted)
                       \o SubSeq(StartCmds, 1, starts_attempted)]

(***************************************************************************)
(* EnvironmentCleaner.clean_environment (env_cleaner.py).                  *)
(***************************************************************************)
CommandOutcomes == {"ok", "nonzero", "timeout", "nolaunch"}

\* entry: [path, size, command], command a BOOLEAN: whether the entry has a
\* cleanup command.  how: the way the command ended; a command that cannot be
\* started raises FileNotFoundError, which only the outer handler catches.
\* emptied: whether the command removed the path itself.
CleanEnvironment(f, lk, entry, dry_run, how, emptied) ==
    LET after == IF entry.command /\ how = "ok" /\ emptied
                 THEN Without(f, Below(f, entry.path))
                 ELSE f
        cmds == IF entry.command THEN <<"cleanup command">> ELSE <<>>
    IN  IF dry_run THEN Result(f, entry.size, <<>>)
        ELSE IF entry.command /\ how = "nolaunch" THEN Result(f, 0, cmds)
        ELSE IF Exists(after, entry.path)
        THEN Result(Rmtree(after, entry.path, lk),
                    GetDirectorySize(after, NoneDenied, entry.path), cmds)
        ELSE Result(after, 0, cmds)

(***************************************************************************)
(* The filesystems the model starts from and the arguments it tries.       *)
(***************************************************************************)
Proj == <<"C:", "proj">>

Gone == <<"C:", "gone">>

BaseFS ==
    (<<"C:">> :> Dir) @@ (<<"D:">> :> Dir)
    @@ (Proj :> Dir)
    @@ (Join(Proj, "a.bin") :> File(7))
    @@ (Join(Proj, "lib") :> Dir)
    @@ (<<"C:", "proj", "lib", "b.bin">> :> File(5))

\* the target volume already holds a relocated "proj"
PopulatedFS ==
    BaseFS @@ (TargetBase(<<"D:">>) :> Dir)
    @@ (TargetPath(Proj, <<"D:">>) :> Dir)
    @@ (Join(TargetPath(Proj, <<"D:">>), "old.bin") :> File(3))

\* the staging folder is there, and empty
StagedFS == BaseFS @@ (TargetBase(<<"D:">>) :> Dir)

MoveSources == {Proj, Gone}

\* a volume that is there and one that is not
TargetDrives == {<<"D:">>, <<"E:">>}

ServiceNames == {"wuauserv", "cryptSvc", "bits", "msiserver"}

Call(op, path, drive, dry_run, r) ==
    [op |-> op, path |-> path, text |-> PathStr(path), drive |-> drive,
     dry |-> dry_run, min_size |-> 0,
     ret |-> r.ret, cmds |-> r.cmds, pre |-> fs, preServices |-> services]

Home == <<"C:", "Users", "u">>

Local == Home \o <<"AppData", "Local">>

Roaming == Home \o <<"AppData", "Roaming">>

NpmCache == Join(Home, ".npm")

\* t with every missing ancestor added as a directory
WithParents(t) ==
    [q \in DOMAIN t \cup UNION {{SubSeq(p, 1, k) : k \in 1..(Len(p) - 1)} : p \in DOMAIN t}
        |-> IF q \in DOMAIN t THEN t[q] ELSE Dir]

\* a filesystem with junk in the places the cleaners look at
JunkFS ==
    WithParents(
        (Local \o <<"Temp", "t1.tmp">> :> File(4))
        @@ (Local \o <<"Temp", "sub", "t2.tmp">> :> File(6))
        @@ (Join(WindowsTemp, "w.tmp") :> File(2))
        @@ (Join(BrowserCachePaths([LOCALAPPDATA |-> Local, APPDATA |-> Roaming])[1], "c.dat")
              :> File(8))
        @@ (Roaming \o <<"Mozilla", "Firefox", "Profiles", "p1", "cache2", "f.dat">> :> File(9))
        @@ (Roaming \o <<"Mozilla", "Firefox", "Profiles", "p1", "prefs.js">> :> File(1))
        @@ (Join(SoftwareDist, "u.cab") :> File(11))
        @@ (Join(NpmCache, "n.bin") :> File(13)))

InitFS == {BaseFS, PopulatedFS, JunkFS}

\* TEMP and TMP both name the per-user temp directory, as Windows sets them
TypicalEnv ==
    [TEMP |-> Join(Local, "Temp"), TMP |-> Join(Local, "Temp"),
     LOCALAPPDATA |-> Local, APPDATA |-> Roaming]

\* TEMP and TMP are not set
BareEnv == [TEMP |-> <<>>, TMP |-> <<>>, LOCALAPPDATA |-> Local, APPDATA |-> Roaming]

EnvConfigs == {TypicalEnv, BareEnv}

\* the files that may be in use
LockCandidates ==
    {Local \o <<"Temp", "t1.tmp">>, Local \o <<"Temp", "sub", "t2.tmp">>}

EnvPaths == {NpmCache, Gone}

StopFailures == {{}, {"wuauserv"}}

\* which of the eight net commands cannot be started: none, the first stop,
\* the second stop
Unlaunched == {0, 1, 2}

StartFailures == {{}, {"bits"}}

NoCall ==
    [op |-> "init", path |-> <<>>, text |-> "", drive |-> <<>>, dry |-> FALSE,
     min_size |-> 0,
     ret |-> FALSE, cmds |-> <<>>, pre |-> fs, preServices |-> [s \in ServiceNames |-> TRUE]]

Init ==
    /\ fs \in InitFS
    /\ locked \in {{}} \cup {{q} : q \in LockCandidates \cap DOMAIN fs}
    /\ services = [s \in ServiceNames |-> TRUE]
    /\ env \in (IF fs = JunkFS THEN EnvConfigs ELSE {TypicalEnv})
    /\ last = NoCall

\* What the environment decides is drawn only where the call gets to it: a
\* dry run asks nothing of it, and only a failed copy has files it failed on.
Decisions(dry_run, S) == IF dry_run THEN {CHOOSE x \in S : TRUE} ELSE S

BadSets(f, src, o) ==
    IF o \in {"copy_failed", "delete_failed"} THEN SUBSET FilesBelow(f, src) \ {{}} ELSE {{}}

Move ==
    \E source \in MoveSources, drive \in TargetDrives, dry_run \in BOOLEAN :
      \E permitted \in Decisions(dry_run, BOOLEAN), o \in Decisions(dry_run, MoveOutcomes) :
        \E granted \in Decisions(o # "ok", BOOLEAN), bad \in BadSets(fs, source, o) :
          LET r == MoveWithSymlink(fs, source, drive, dry_run, permitted, o, bad, granted)
          IN  /\ fs' = r.fs
              /\ last' = Call("move", source, drive, dry_run, r)
              /\ UNCHANGED <<locked, services, env>>

Restore ==
    \E symlink_path \in MoveSources, dry_run \in BOOLEAN :
      \E permitted \in Decisions(dry_run, BOOLEAN), o \in Decisions(dry_run, MoveOutcomes) :
        \E bad \in BadSets(fs, ResolvePath(fs, symlink_path, MaxLinkHops), o) :
          LET r == RestoreSymlink(fs, symlink_path, dry_run, permitted, o, bad)
          IN  /\ fs' = r.fs
              /\ last' = Call("restore", symlink_path, <<>>, dry_run, r)
              /\ UNCHANGED <<locked, services, env>>

CleanTemp ==
    \E dry_run \in BOOLEAN :
        LET r == CleanTempFiles(fs, locked, env, dry_run)
        IN  /\ fs' = r.fs
            /\ last' = Call("clean_temp", <<>>, <<>>, dry_run, Result(r.fs, r.freed, <<>>))
            /\ UNCHANGED <<locked, services, env>>

CleanBrowser ==
    \E dry_run \in BOOLEAN :
        LET r == CleanBrowserCache(fs, locked, env, dry_run)
        IN  /\ fs' = r.fs
            /\ last' = Call("clean_browser_cache", <<>>, <<>>, dry_run,
                            Result(r.fs, r.freed, <<>>))
            /\ UNCHANGED <<locked, services, env>>

CleanSystem ==
    \E dry_run \in BOOLEAN :
      \E cleanmgr \in Decisions(dry_run, ToolOutcomes) :
        \E unlaunched \in Decisions(cleanmgr \in {"timeout", "absent"}, Unlaunched) :
          \E stop_fails \in Decisions(dry_run \/ unlaunched = 1, StopFailures),
             start_fails \in Decisions(dry_run \/ unlaunched \in 1..5, StartFailures) :
            LET r == CleanSystemCache(fs, locked, services, dry_run, cleanmgr,
                                      unlaunched, stop_fails, start_fails)
            IN  /\ fs' = r.fs
                /\ services' = r.services
                /\ last' = Call("clean_system_cache", <<>>, <<>>, dry_run, r)
                /\ UNCHANGED <<locked, env>>

CleanEnv ==
    \E path \in EnvPaths, dry_run \in BOOLEAN :
      \E command \in Decisions(dry_run, BOOLEAN), size \in {0, GetDirectorySize(fs, NoneDenied, path)} :
        \E how \in Decisions(dry_run \/ ~command, CommandOutcomes) :
          \E emptied \in Decisions(dry_run \/ ~command \/ how # "ok", BOOLEAN) :
            LET entry == [path |-> path, size |-> size, command |-> command]
                r == CleanEnvironment(fs, locked, entry, dry_run, how, emptied)
            IN  /\ fs' = r.fs
                /\ last' = Call("clean_environment", path, <<>>, dry_run, r)
                /\ UNCHANGED <<locked, services, env>>

Next == Move \/ Restore \/ CleanTemp \/ CleanBrowser \/ CleanSystem \/ CleanEnv

Spec == Init /\ [][Next]_vars

\* the relocation engine alone
InitMove ==
    /\ fs \in {BaseFS, StagedFS, PopulatedFS}
    /\ locked = {}
    /\ services = [s \in ServiceNames |-> TRUE]
    /\ env = TypicalEnv
    /\ last = NoCall

NextMove == Move \/ Restore

SpecMove == InitMove /\ [][NextMove]_vars

(***************************************************************************)
(* DiskAnalyzer (analyzer.py).                                             *)
(***************************************************************************)
UpperCase == <<"A", "B", "C", "D", "E", "F", "G", "H", "I", "J", "K", "L", "M",
               "N", "O", "P", "Q", "R", "S", "T", "U", "V", "W", "X", "Y", "Z">>

LowerCase == <<"a", "b", "c", "d", "e", "f", "g", "h", "i", "j", "k", "l", "m",
               "n", "o", "p", "q", "r", "s", "t", "u", "v", "w", "x", "y", "z">>

LowerChar(c) ==
    IF \E i \in 1..26 : UpperCase[i] = c
    THEN LowerCase[CHOOSE i \in 1..26 : UpperCase[i] = c]
    ELSE c

\* str.lower()
RECURSIVE Lower(_)
Lower(s) ==
    IF Len(s) = 0 THEN ""
    ELSE LowerChar(SubSeq(s, 1, 1)) \o Lower(SubSeq(s, 2, Len(s)))

\* DiskAnalyzer.__init__: self.package_patterns, in insertion order
PackagePatterns ==
    <<[pattern |-> "node_modules", type |-> "Node.js packages"],
      [pattern |-> "__pycache__", type |-> "Python cache"],
      [pattern |-> ".pip", type |-> "Python pip cache"],
      [pattern |-> ".conda", type |-> "Conda packages"],
      [pattern |-> ".npm", type |-> "NPM cache"],
      [pattern |-> "AppData\\Local\\Temp", type |-> "Temporary files"],
      [pattern |-> "Downloads", type |-> "Downloads folder"],
      [pattern |-> "Windows\\Temp", type |-> "Windows temp files"]>>

GeneralFolder == "General folder"

\* the test without lower-casing the pattern
PatternMatches_CaseSensitive(pattern, path_lower) == Contains(path_lower, pattern)

\* the test of one pattern: pattern.lower() in path_lower
PatternMatches(pattern, path_lower) == Contains(path_lower, Lower(pattern))

\* the loop of _identify_folder_type from the i-th pattern on
RECURSIVE IdentifyFrom(_, _)
IdentifyFrom(path_lower, i) ==
    IF i > Len(PackagePatterns) THEN GeneralFolder
    ELSE IF PatternMatches(PackagePatterns[i].pattern, path_lower)
         THEN PackagePatterns[i].type
         ELSE IdentifyFrom(path_lower, i + 1)

\* DiskAnalyzer._identify_folder_type
IdentifyFolderType(path) == IdentifyFrom(Lower(path), 1)

\* DiskAnalyzer._is_system_critical: critical_paths
CriticalPaths ==
    {"c:\\windows\\system32",
     "c:\\windows\\syswow64",
     "c:\\program files\\windows",
     "c:\\programdata\\microsoft\\windows",
     "c:\\users\\all users"}

\* the test without lower-casing the path
IsSystemCritical_CaseSensitive(path) ==
    \E critical \in CriticalPaths : Contains(path, critical)

\* a test of the beginning of the path only
IsSystemCritical_PrefixOnly(path) ==
    \E critical \in CriticalPaths :
        /\ Len(path) >= Len(critical)
        /\ SubSeq(Lower(path), 1, Len(critical)) = critical

\* DiskAnalyzer._is_system_critical
IsSystemCritical(path) == \E critical \in CriticalPaths : Contains(Lower(path), critical)

\* a size that counts only the files directly in the directory
GetFolderSize_Shallow(f, denied, p) ==
    IF ~IsDir(f, p) THEN 0
    ELSE SumSizes(f, {q \in Children(f, Deref(f, p, MaxLinkHops)) : f[q].kind = "file"})

\* DiskAnalyzer._get_folder_size
GetFolderSize(f, denied, p) ==
    IF ~IsDir(f, p) THEN 0
    ELSE SumSizes(f, Measured(f, denied, Deref(f, p, MaxLinkHops)))

\* a walk that ends at the first directory it cannot list
AfterUnreadable_Abort(rest) == <<>>

\* What the walk goes on with after a directory whose listing raised: os.walk
\* swallows the error (no onerror) and carries on with the directories left.
AfterUnreadable(rest) == rest

\* a walk that does not go below the directory it is given
SubDirs_None(f, p) == {}

\* the dirs of one step of os.walk: the subdirectories, links left out
SubDirs(f, p) == {q \in Children(f, p) : f[q].kind = "dir"}

\* The directories the loop of scan_directory gets to the size test with, in
\* the order os.walk yields them: top-down; a critical directory is skipped
\* and its dirs are cleared; a directory that cannot be listed is not
\* yielded; os.walk does not descend into a link.  The order among the
\* children of one directory is the operating system's.
RECURSIVE ScanVisit(_, _, _)
RECURSIVE ScanVisitAll(_, _, _)
ScanVisit(f, denied, p) ==
    IF IsSystemCritical(PathStr(p)) THEN <<>>
    ELSE <<p>> \o ScanVisitAll(f, denied, SubDirs(f, p))

ScanVisitAll(f, denied, S) ==
    IF S = {} THEN <<>>
    ELSE LET d == CHOOSE x \in S : TRUE
             rest == ScanVisitAll(f, denied, S \ {d})
         IN  IF d \in denied THEN AfterUnreadable(rest)
             ELSE ScanVisit(f, denied, d) \o rest

\* the size test: folder_size >= min_size
Qualifies(folder_size, min_size) == folder_size >= min_size

Report(f, denied, p) ==
    [path |-> PathStr(p), size |-> GetFolderSize(f, denied, p),
     type |-> IdentifyFolderType(PathStr(p))]

RECURSIVE Collect(_, _, _, _, _)
Collect(f, denied, visited, i, min_size) ==
    IF i > Len(visited) THEN <<>>
    ELSE (IF Qualifies(GetFolderSize(f, denied, visited[i]), min_size)
          THEN <<Report(f, denied, visited[i])>> ELSE <<>>)
         \o Collect(f, denied, visited, i + 1, min_size)

\* a sort in ascending order
ComesBefore_Ascending(a, x) == a.size <= x.size

\* where sorted(..., reverse=True) puts x among the ones before it: a stable
\* sort keeps x behind those of its own size
ComesBefore(a, x) == a.size >= x.size

RECURSIVE InsertBySize(_, _)
InsertBySize(sorted, x) ==
    IF sorted = <<>> THEN <<x>>
    ELSE IF ComesBefore(Head(sorted), x)
         THEN <<Head(sorted)>> \o InsertBySize(Tail(sorted), x)
         ELSE <<x>> \o sorted

\* sorted(results, key=lambda x: x['size'], reverse=True)
RECURSIVE SortBySizeDesc(_, _)
SortBySizeDesc(results, i) ==
    IF i = 0 THEN <<>>
    ELSE InsertBySize(SortBySizeDesc(results, i - 1), results[i])

\* DiskAnalyzer.scan_directory; a path that is no directory, or one that
\* cannot be listed, yields nothing
ScanDirectory(f, denied, path, min_size) ==
    LET visited == IF path \in DOMAIN f /\ f[path].kind = "dir" /\ path \notin denied
                   THEN ScanVisit(f, denied, path) ELSE <<>>
        results == Collect(f, denied, visited, 1, min_size)
    IN  SortBySizeDesc(results, Len(results))

(***************************************************************************)
(* The trees the scanner is run on, and its arguments.                     *)
(***************************************************************************)
MiB == 1024 * 1024

DataRoot == <<"C:", "data">>

Nested == Join(DataRoot, "nested")

\* a 10 MiB file, a 5 MiB file and a subdirectory with a 200 MiB file
ScenarioTree ==
    WithParents(
        (Join(DataRoot, "ten.bin") :> File(10 * MiB))
        @@ (Join(DataRoot, "five.bin") :> File(5 * MiB))
        @@ (Join(Nested, "big.bin") :> File(200 * MiB)))

\* a system volume, named in the mixed case Windows uses
SystemTree ==
    WithParents(
        (<<"C:", "Windows", "System32", "drivers", "d.sys">> :> File(120 * MiB))
        @@ (<<"C:", "Windows", "System32", "k.dll">> :> File(30 * MiB))
        @@ (<<"C:", "Windows", "SysWOW64", "s.dll">> :> File(105 * MiB))
        @@ (<<"C:", "Windows", "Temp", "w.tmp">> :> File(110 * MiB))
        @@ (<<"C:", "Program Files", "Windows Defender", "m.exe">> :> File(101 * MiB))
        @@ (<<"C:", "Program Files", "App", "node_modules", "n.js">> :> File(130 * MiB))
        @@ (<<"C:", "Users", "All Users", "a.dat">> :> File(102 * MiB))
        @@ (<<"C:", "Users", "u", "Downloads", "i.iso">> :> File(130 * MiB))
        @@ (<<"C:", "Users", "u", "Downloads", "old", "j.iso">> :> File(4 * MiB))
        @@ (<<"C:", "Users", "u", "notes.txt">> :> File(1)))

ScanTrees == {ScenarioTree, SystemTree}

WorkDir == <<"C:", "work">>

\* a tree with links in it: to a directory outside, to a file outside, to
\* one of its own ancestors, and to nothing
LinkTree ==
    WithParents(
        (Join(WorkDir, "a.bin") :> File(7))
        @@ (WorkDir \o <<"sub", "b.bin">> :> File(5))
        @@ (WorkDir \o <<"sub", "deep", "c.bin">> :> File(3))
        @@ (WorkDir \o <<"sub", "alias.bin">> :> Link(<<"C:", "other", "o.bin">>))
        @@ (WorkDir \o <<"sub", "up">> :> Link(WorkDir))
        @@ (Join(WorkDir, "ext") :> Link(<<"C:", "other">>))
        @@ (Join(WorkDir, "lost") :> Link(<<"C:", "nowhere">>))
        @@ (<<"C:", "other", "o.bin">> :> File(11)))

\* the paths the size functions are called with: directories, a link to a
\* directory, a file, a path that does not exist
SizeRoots ==
    {WorkDir, Join(WorkDir, "sub"), WorkDir \o <<"sub", "deep">>, <<"C:">>,
     Join(WorkDir, "ext"), Join(WorkDir, "a.bin"), Gone}

\* the entries the OS may refuse to read: directories (listing raises) and
\* files (os.path.getsize raises)
DeniedCandidates ==
    {WorkDir, Join(WorkDir, "sub"), WorkDir \o <<"sub", "deep">>, Join(WorkDir, "a.bin"),
     WorkDir \o <<"sub", "b.bin">>,
     <<"C:", "Users", "u", "Downloads">>, <<"C:", "Users", "u", "Downloads", "i.iso">>,
     <<"C:", "Users">>, <<"C:", "Program Files">>, <<"C:", "Windows">>}

\* at most MaxDenied entries fail in one call
MaxDenied == 2

DeniedSets == {D \in SUBSET DeniedCandidates : Cardinality(D) <= MaxDenied}

ScanRoots ==
    {<<"C:">>, DataRoot, Nested, <<"C:", "Windows">>, <<"C:", "Windows", "System32">>,
     <<"C:", "Windows", "System32", "drivers">>, <<"C:", "Program Files">>,
     <<"C:", "Users">>, <<"C:", "Users", "u">>, Gone}

MinSizes == {0, 1, MiB, 100 * MiB, 125 * MiB, 216 * MiB}

\* the text the classifier is tried on: "C:" and up to MaxFrags of these
MaxFrags == 2

Fragments ==
    {"node_modules", "Node_Modules", ".npm", ".NPM", "__pycache__", ".pip",
     ".Conda", "AppData\\Local\\Temp", "Downloads", "DOWNLOADS", "Windows\\Temp",
     "src", "my.npmrc", "node_modules_old", "Temp"}

FragSeqs == UNION {[1..n -> Fragments] : n \in 0..MaxFrags}

ClassifyPaths == {"C:" \o JoinFrom(frs, 1) : frs \in FragSeqs}

UpperChar(c) ==
    IF \E i \in 1..26 : LowerCase[i] = c
    THEN UpperCase[CHOOSE i \in 1..26 : LowerCase[i] = c]
    ELSE c

\* s with the characters at the positions in K in upper case
RECURSIVE UpperAt(_, _, _)
UpperAt(s, K, i) ==
    IF i > Len(s) THEN ""
    ELSE (IF i \in K THEN UpperChar(SubSeq(s, i, i)) ELSE SubSeq(s, i, i))
         \o UpperAt(s, K, i + 1)

Masks(n) ==
    {{}, 1..n, {k \in 1..n : k % 2 = 0}} \cup {{k} : k \in 1..n}

\* every protected location, written in several letter cases
ProtectedSpellings ==
    UNION {{UpperAt(c, K, 1) : K \in Masks(Len(c))} : c \in CriticalPaths}

CriticalProbes ==
    ProtectedSpellings
    \cup {c \o "\\sub" : c \in ProtectedSpellings}
    \cup {"C:\\Windows", "C:\\Users\\u", "D:\\backup\\c:\\windows\\system32", "C:\\",
          "\\\\?\\C:\\Windows\\System32\\drivers", "Windows\\System32"}

\* a call of the analyzer that has not run yet, and the call once it returned
Request(op, path, text, min_size, denied) ==
    [op |-> op, path |-> path, text |-> text, drive |-> <<>>, dry |-> FALSE,
     min_size |-> min_size, denied |-> denied,
     ret |-> FALSE, cmds |-> <<>>, pre |-> <<>>,
     preServices |-> [s \in ServiceNames |-> TRUE]]

Returned(op, ret) == [last EXCEPT !.op = op, !.ret = ret, !.pre = fs]

Requests ==
    {Request("call scan", path, PathStr(path), min_size, denied) :
        path \in ScanRoots, min_size \in MinSizes, denied \in DeniedSets}
    \cup {Request(op, path, PathStr(path), 0, denied) :
            op \in {"call folder_size", "call directory_size"},
            path \in SizeRoots, denied \in DeniedSets}
    \cup {Request("call classify", <<>>, path, 0, {}) : path \in ClassifyPaths}
    \cup {Request("call is_critical", <<>>, path, 0, {}) : path \in CriticalProbes}

\* the trees a call is tried on
TreesFor(op) ==
    IF op = "call scan" THEN ScanTrees
    ELSE IF op \in {"call folder_size", "call directory_size"}
         THEN {ScenarioTree, LinkTree}
         ELSE {ScenarioTree}

\* the entries that fail are entries of the tree
InitScan ==
    /\ last \in Requests
    /\ fs \in TreesFor(last.op)
    /\ last.denied \subseteq DOMAIN fs
    /\ locked = {}
    /\ services = [s \in ServiceNames |-> TRUE]
    /\ env = TypicalEnv

Scan ==
    /\ last.op = "call scan"
    /\ last' = Returned("scan", ScanDirectory(fs, last.denied, last.path, last.min_size))
    /\ UNCHANGED <<fs, locked, services, env>>

FolderSize ==
    /\ last.op = "call folder_size"
    /\ last' = Returned("folder_size", GetFolderSize(fs, last.denied, last.path))
    /\ UNCHANGED <<fs, locked, services, env>>

DirectorySize ==
    /\ last.op = "call directory_size"
    /\ last' = Returned("directory_size", GetDirectorySize(fs, last.denied, last.path))
    /\ UNCHANGED <<fs, locked, services, env>>

Classify ==
    /\ last.op = "call classify"
    /\ last' = Returned("classify", IdentifyFolderType(last.text))
    /\ UNCHANGED <<fs, locked, services, env>>

Critical ==
    /\ last.op = "call is_critical"
    /\ last' = Returned("is_critical", IsSystemCritical(last.text))
    /\ UNCHANGED <<fs, locked, services, env>>

NextScan == Scan \/ Classify \/ Critical \/ FolderSize \/ DirectorySize

SpecScan == InitScan /\ [][NextScan]_vars

(***************************************************************************)
(* DiskAnalyzer.get_drive_info (analyzer.py).  A volume is what the system *)
(* answers about one drive letter: whether its bit is set in               *)
(* GetLogicalDrives, what GetDriveType returns or that it raises, and what *)
(* psutil.disk_usage returns or that it raises.  usage_percent, a float,   *)
(* is kept in whole percent.                                               *)
(***************************************************************************)
DriveTypes == {"fixed", "removable", "remote", "raises"}

\* a test that only leaves out removable media
IsFixedDrive_NotRemovable(drive_type) == drive_type # "removable"

\* drive_type == win32file.DRIVE_FIXED
IsFixedDrive(drive_type) == drive_type = "fixed"

Usage(total, used) == [ok |-> TRUE, total |-> total, used |-> used, free |-> total - used]

NoUsage == [ok |-> FALSE, total |-> 0, used |-> 0, free |-> 0]

\* the body of the loop for one letter: the entry appended, or nothing.
\* Whatever raises inside the try (GetDriveType, disk_usage, the division
\* by a total of 0) is caught by the bare except, and the loop goes on.
DriveEntry(letter, v) ==
    IF ~v.present THEN <<>>
    ELSE IF v.type = "raises" THEN <<>>
    ELSE IF ~IsFixedDrive(v.type) THEN <<>>
    ELSE IF ~v.usage.ok THEN <<>>
    ELSE IF v.usage.total = 0 THEN <<>>
    ELSE <<[drive |-> letter \o ":" \o Sep,
            total |-> v.usage.total, used |-> v.usage.used, free |-> v.usage.free,
            usage_percent |-> (v.usage.used * 100) \div v.usage.total]>>

\* the loop over the letters, from the i-th on
RECURSIVE DriveInfoFrom(_, _, _)
DriveInfoFrom(letters, volumes, i) ==
    IF i > Len(letters) THEN <<>>
    ELSE DriveEntry(letters[i], volumes[letters[i]])
         \o DriveInfoFrom(letters, volumes, i + 1)

\* the drive letters looked at, in the order of the loop; a letter whose bit
\* is never set adds nothing, and only these are tried
DriveLetters == <<"C", "D", "E">>

\* DiskAnalyzer.get_drive_info
GetDriveInfo(volumes) == DriveInfoFrom(DriveLetters, volumes, 1)

\* what the system may answer about one letter
VolumeStates ==
    {[present |-> FALSE, type |-> "fixed", usage |-> NoUsage]}
    \cup {[present |-> TRUE, type |-> t, usage |-> u] :
            t \in {"fixed"}, u \in {Usage(100, 30), Usage(0, 0), NoUsage}}
    \cup {[present |-> TRUE, type |-> t, usage |-> u] :
            t \in {"removable", "remote"}, u \in {Usage(100, 30), NoUsage}}
    \cup {[present |-> TRUE, type |-> "raises", usage |-> Usage(100, 30)]}

LetterSet == {DriveLetters[i] : i \in 1..Len(DriveLetters)}

DriveRequest(volumes) == [op |-> "call drive_info", volumes |-> volumes, ret |-> <<>>]

InitDrives ==
    /\ last \in {DriveRequest(volumes) : volumes \in [LetterSet -> VolumeStates]}
    /\ fs = BaseFS
    /\ locked = {}
    /\ services = [s \in ServiceNames |-> TRUE]
    /\ env = TypicalEnv

DriveInfo ==
    /\ last.op = "call drive_info"
    /\ last' = [last EXCEPT !.op = "drive_info", !.ret = GetDriveInfo(last.volumes)]
    /\ UNCHANGED <<fs, locked, services, env>>

NextDrives == DriveInfo

SpecDrives == InitDrives /\ [][NextDrives]_vars

(***************************************************************************)
(* EnvironmentCleaner.get_environment_suggestions (env_cleaner.py).  An    *)
(* entry is [type, size]; the other keys of an entry are not read.  The    *)
(* 'suggestion' text of a result repeats its count, type and total_size    *)
(* and is left out.                                                        *)
(***************************************************************************)
GiB == 1024 * 1024 * 1024

\* thresholds that include their own value
Priority_Inclusive(total_size) ==
    IF total_size >= GiB THEN "high"
    ELSE IF total_size >= 500 * MiB THEN "medium"
    ELSE "low"

\* the priority of a group: "> 1GB", "> 500MB"
Priority(total_size) ==
    IF total_size > GiB THEN "high"
    ELSE IF total_size > 500 * MiB THEN "medium"
    ELSE "low"

\* a grouping that never finds the type among the ones it has
SeenType_Never(types, env_type) == FALSE

\* "env_type not in env_by_type", negated
SeenType(types, env_type) == \E k \in 1..Len(types) : types[k] = env_type

\* the keys of env_by_type after the first i entries, in insertion order
RECURSIVE TypesInOrder(_, _)
TypesInOrder(environments, i) ==
    IF i = 0 THEN <<>>
    ELSE LET types == TypesInOrder(environments, i - 1)
             env_type == environments[i].type
         IN  IF SeenType(types, env_type) THEN types ELSE Append(types, env_type)

\* env_by_type[env_type]
RECURSIVE EnvsOfType(_, _, _)
EnvsOfType(environments, env_type, i) ==
    IF i > Len(environments) THEN <<>>
    ELSE (IF environments[i].type = env_type THEN <<environments[i]>> ELSE <<>>)
         \o EnvsOfType(environments, env_type, i + 1)

\* sum(env['size'] for env in envs)
RECURSIVE SumEnvSizes(_, _)
SumEnvSizes(envs, i) ==
    IF i > Len(envs) THEN 0 ELSE envs[i].size + SumEnvSizes(envs, i + 1)

Suggestion(environments, env_type) ==
    LET envs == EnvsOfType(environments, env_type, 1)
        total_size == SumEnvSizes(envs, 1)
    IN  [type |-> env_type, count |-> Len(envs), total_size |-> total_size,
         priority |-> Priority(total_size)]

\* where sorted(..., reverse=True) puts x among the ones before it
RECURSIVE InsertByTotal(_, _)
InsertByTotal(sorted, x) ==
    IF sorted = <<>> THEN <<x>>
    ELSE IF Head(sorted).total_size >= x.total_size
         THEN <<Head(sorted)>> \o InsertByTotal(Tail(sorted), x)
         ELSE <<x>> \o sorted

\* sorted(suggestions, key=lambda x: x['total_size'], reverse=True)
RECURSIVE SortByTotalDesc(_, _)
SortByTotalDesc(suggestions, i) ==
    IF i = 0 THEN <<>>
    ELSE InsertByTotal(SortByTotalDesc(suggestions, i - 1), suggestions[i])

\* EnvironmentCleaner.get_environment_suggestions
GetEnvironmentSuggestions(environments) ==
    LET types == TypesInOrder(environments, Len(environments))
        suggestions == [k \in 1..Len(types) |-> Suggestion(environments, types[k])]
    IN  SortByTotalDesc(suggestions, Len(suggestions))

\* the lists of entries that are tried: up to MaxEntries entries
MaxEntries == 3

EntryTypes == {"Node.js", "Python", "NPM"}

\* sizes whose sums fall on, just below and just above both thresholds
EntrySizes == {1, 250 * MiB, 500 * MiB, 512 * MiB}

Entries == [type : EntryTypes, size : EntrySizes]

EntryLists == UNION {[1..n -> Entries] : n \in 0..MaxEntries}

SuggestRequest(environments) ==
    [op |-> "call suggest", environments |-> environments, ret |-> <<>>]

InitSuggest ==
    /\ last \in {SuggestRequest(environments) : environments \in EntryLists}
    /\ fs = BaseFS
    /\ locked = {}
    /\ services = [s \in ServiceNames |-> TRUE]
    /\ env = TypicalEnv

Suggest ==
    /\ last.op = "call suggest"
    /\ last' = [last EXCEPT !.op = "suggest",
                            !.ret = GetEnvironmentSuggestions(last.environments)]
    /\ UNCHANGED <<fs, locked, services, env>>

NextSuggest == Suggest

SpecSuggest == InitSuggest /\ [][NextSuggest]_vars

(***************************************************************************)
(* What the last call was and what it did, read off last and fs.           *)
(***************************************************************************)
RealMove == last.op = "move" /\ ~last.dry

RealRestore == last.op = "restore" /\ ~last.dry

LastTarget == TargetPath(last.path, last.drive)

\* the subtree that was at the source is now, whole, at the target path
MovedToTarget ==
    /\ last.path \in DOMAIN last.pre
    /\ LastTarget \notin DOMAIN last.pre
    /\ Subtree(fs, LastTarget) = Subtree(last.pre, last.path)

\* moved and linked
Linked == RealMove /\ MovedToTarget /\ last.path \in DOMAIN fs
          /\ fs[last.path] = Link(LastTarget)

\* moved, and nothing is at the original path
PartiallyMoved == RealMove /\ MovedToTarget /\ last.path \notin DOMAIN fs

\* what move_with_symlink returns for a move that went through entirely,
\* and for one that moved nothing
SuccessOutcome == TRUE

FailureOutcome == FALSE

(***************************************************************************)
(* C1.  A real move that moved the subtree to the target and then could    *)
(* not create the link at the original path (PartiallyMoved) returns an    *)
(* outcome that is neither the outcome of full success nor the outcome of  *)
(* total failure.                                                          *)
(***************************************************************************)
C1_PartialMoveReportedDistinctly ==
    PartiallyMoved => (last.ret # SuccessOutcome /\ last.ret # FailureOutcome)

(***************************************************************************)
(* C2.  Whenever a real move returns success, the original path is a link  *)
(* to target_volume/CleanShift_Moved/basename(source) and the subtree's    *)
(* content is at that target path.                                         *)
(***************************************************************************)
C2_SuccessMeansLinked ==
    (RealMove /\ last.ret = SuccessOutcome) => Linked

(***************************************************************************)
(* C3.  A real move whose computed target path already exists returns      *)
(* failure and leaves the filesystem as it was: the source is still the    *)
(* directory it was, and the existing target is untouched.                 *)
(***************************************************************************)
TargetWasTaken ==
    RealMove /\ Exists(last.pre, last.path) /\ LastTarget \in DOMAIN last.pre

C3_ExistingTargetFailsUntouched ==
    TargetWasTaken => (last.ret = FailureOutcome /\ fs = last.pre)

C3_Witness ==
    /\ TargetWasTaken
    /\ last.path = Proj
    /\ last.pre[Proj].kind = "dir"
    /\ last.pre[LastTarget].kind = "dir"
    /\ last.ret = FailureOutcome

(***************************************************************************)
(* C4.  A move of a source that does not exist, and a restore of a path    *)
(* that is not a link, return failure and change nothing, in dry-run and   *)
(* in real mode.                                                           *)
(***************************************************************************)
InvalidPrecondition ==
    \/ last.op = "move" /\ ~Exists(last.pre, last.path)
    \/ last.op = "restore" /\ ~IsSymlink(last.pre, last.path)

C4_InvalidPreconditionFailsClosed ==
    InvalidPrecondition =>
        /\ last.ret = FailureOutcome
        /\ fs = last.pre
        /\ services = last.preServices
        /\ last.cmds = <<>>

C4_Witness ==
    /\ RealRestore
    /\ last.path \in DOMAIN last.pre
    /\ last.pre[last.path].kind = "dir"
    /\ last.ret = FailureOutcome

(***************************************************************************)
(* C5.  A successful real move of an existing directory followed by a real *)
(* restore of the same path (one that itself returns success) leaves the   *)
(* filesystem equal to the one before the move: the same paths exist, with *)
(* the same content, and no path exists that did not exist before.         *)
(***************************************************************************)
C5_MoveThenRestoreIsIdentity ==
    [][(/\ RealMove
        /\ last.ret = SuccessOutcome
        /\ last.pre[last.path].kind = "dir"
        /\ last'.op = "restore"
        /\ ~last'.dry
        /\ last'.path = last.path
        /\ last'.ret = SuccessOutcome)
       => fs' = last.pre]_vars

(***************************************************************************)
(* C6.  A call with dry_run = true (clean_temp, clean_browser_cache,       *)
(* clean_system_cache, clean_environment, move, restore) leaves the        *)
(* filesystem as it was, stops no service and runs no external command;    *)
(* a dry-run move of an existing source and a dry-run restore of a link    *)
(* return success.                                                         *)
(***************************************************************************)
C6_DryRunChangesNothing ==
    /\ last.dry =>
         /\ fs = last.pre
         /\ services = last.preServices
         /\ last.cmds = <<>>
    /\ (last.op = "move" /\ last.dry /\ Exists(last.pre, last.path))
         => last.ret = SuccessOutcome
    /\ (last.op = "restore" /\ last.dry /\ IsSymlink(last.pre, last.path))
         => last.ret = SuccessOutcome

\* a dry run of clean_temp that found bytes to free
C6_Witness ==
    /\ last.op = "clean_temp"
    /\ last.dry
    /\ last.ret > 0
    /\ FilesBelow(fs, Join(Local, "Temp")) # {}


(***************************************************************************)
(* C7.  _is_system_critical is true of every configured protected          *)
(* location whatever the letter case it is written in, and no report of a  *)
(* scan, for any root and min_size, has a path that is a protected         *)
(* location or lies under one.                                             *)
(***************************************************************************)
StartsWith(s, prefix) ==
    Len(s) >= Len(prefix) /\ SubSeq(s, 1, Len(prefix)) = prefix

UnderProtected(text) == \E c \in CriticalPaths : StartsWith(Lower(text), c)

C7_ProtectedNeverReported ==
    /\ (last.op = "is_critical" /\ last.text \in ProtectedSpellings) => last.ret = TRUE
    /\ last.op = "scan" =>
         \A i \in 1..Len(last.ret) : ~UnderProtected(last.ret[i].path)

\* a scan from above a protected directory that is large enough to report
C7_Witness ==
    /\ last.op = "scan"
    /\ last.path = <<"C:", "Windows">>
    /\ <<"C:", "Windows", "System32">> \in DOMAIN fs
    /\ GetFolderSize(fs, last.denied, <<"C:", "Windows", "System32">>) >= last.min_size
    /\ last.min_size > 0
    /\ Len(last.ret) >= 2

(***************************************************************************)
(* C8.  The list a scan returns is in non-increasing order of size, and    *)
(* every entry of it has size >= min_size.                                 *)
(***************************************************************************)
C8_SortedAndAboveThreshold ==
    last.op = "scan" =>
        /\ \A i, j \in 1..Len(last.ret) : i < j => last.ret[i].size >= last.ret[j].size
        /\ \A i \in 1..Len(last.ret) : last.ret[i].size >= last.min_size

\* several reports of different sizes, and a directory left out as too small
C8_Witness ==
    /\ last.op = "scan"
    /\ Len(last.ret) >= 3
    /\ last.ret[1].size > last.ret[Len(last.ret)].size
    /\ \E p \in DOMAIN fs :
         /\ fs[p].kind = "dir"
         /\ IsUnder(last.path, p)
         /\ ~IsSystemCritical(PathStr(p))
         /\ GetFolderSize(fs, last.denied, p) < last.min_size

(***************************************************************************)
(* C9.  On a root holding a 10 MiB file, a 5 MiB file and a subdirectory   *)
(* holding a 200 MiB file.  As stated: min_size = 100 MiB yields exactly   *)
(* one report, the subdirectory at 200 MiB, and min_size = 1 MiB yields    *)
(* exactly two, the subdirectory at 200 MiB and the root at 215 MiB.       *)
(* As amended: both thresholds yield the same two reports, the root at     *)
(* 215 MiB first and the subdirectory at 200 MiB second.                   *)
(***************************************************************************)
ScenarioScan == last.op = "scan" /\ fs = ScenarioTree /\ last.path = DataRoot

PathsAndSizes(ret) == [i \in 1..Len(ret) |-> <<ret[i].path, ret[i].size>>]

NestedReport == <<"C:\\data\\nested", 200 * MiB>>

RootReport == <<"C:\\data", 215 * MiB>>

C9_ScenarioAsStated ==
    ScenarioScan =>
        /\ last.min_size = 100 * MiB => PathsAndSizes(last.ret) = <<NestedReport>>
        /\ last.min_size = MiB =>
             /\ Len(last.ret) = 2
             /\ {PathsAndSizes(last.ret)[i] : i \in 1..2} = {NestedReport, RootReport}

C9_ScenarioReportsRootToo ==
    (ScenarioScan /\ last.min_size \in {MiB, 100 * MiB}) =>
        PathsAndSizes(last.ret) = <<RootReport, NestedReport>>

C9_Witness ==
    /\ ScenarioScan
    /\ last.min_size = 100 * MiB
    /\ Len(last.ret) = 2

(***************************************************************************)
(* C10.  _identify_folder_type returns the label of the first pattern, in  *)
(* the table's order, whose lower-cased text is a substring of the         *)
(* lower-cased path, and the general-folder label when there is none; a    *)
(* path with both 'node_modules' and '.npm' in it gets the label of the    *)
(* one that is earlier in the table.                                       *)
(***************************************************************************)
Matching(text) ==
    {i \in 1..Len(PackagePatterns) :
        Contains(Lower(text), Lower(PackagePatterns[i].pattern))}

IndexOf(pattern) == CHOOSE i \in 1..Len(PackagePatterns) : PackagePatterns[i].pattern = pattern

Earlier(a, b) == IF IndexOf(a) < IndexOf(b) THEN IndexOf(a) ELSE IndexOf(b)

C10_FirstPatternInTableOrder ==
    last.op = "classify" =>
        LET m == Matching(last.text)
        IN  /\ m = {} => last.ret = GeneralFolder
            /\ m # {} =>
                 last.ret = PackagePatterns[CHOOSE i \in m : \A j \in m : i <= j].type
            /\ (Contains(Lower(last.text), "node_modules")
                /\ Contains(Lower(last.text), ".npm"))
                 => last.ret = PackagePatterns[Earlier("node_modules", ".npm")].type

\* '.npm' comes first in the path, 'node_modules' first in the table
C10_Witness ==
    /\ last.op = "classify"
    /\ last.text = "C:\\.NPM\\Node_Modules"
    /\ last.ret = "Node.js packages"

(***************************************************************************)
(* C11.  The size functions (_get_folder_size, _get_directory_size) return *)
(* the sum S of the sizes of all files reachable under the directory when  *)
(* nothing fails; when files or subdirectories cannot be read they still   *)
(* return a number, the sum over exactly the files that can be read, which *)
(* is at most S; for a path that does not exist they return 0.             *)
(***************************************************************************)
RECURSIVE ReachableSize(_, _, _)
RECURSIVE ReachableSizeOfAll(_, _, _)
\* by descent from directory d: what the readable entries below d add up to
ReachableSize(f, denied, d) ==
    IF d \in denied THEN 0 ELSE ReachableSizeOfAll(f, denied, Children(f, d))

ReachableSizeOfAll(f, denied, S) ==
    IF S = {} THEN 0
    ELSE LET c == CHOOSE x \in S : TRUE
             own == IF c \in denied THEN 0
                    ELSE IF f[c].kind = "dir" THEN ReachableSize(f, denied, c)
                    ELSE IF f[c].kind = "file" THEN f[c].size
                    ELSE IF IsFile(f, c) THEN f[Deref(f, c, MaxLinkHops)].size
                    ELSE 0
         IN  own + ReachableSizeOfAll(f, denied, S \ {c})

SizeCall == last.op \in {"folder_size", "directory_size"}

SizedTop == Deref(fs, last.path, MaxLinkHops)

C11_SizeIsSumOverReadableFiles ==
    SizeCall =>
        /\ last.ret \in Nat
        /\ ~Exists(fs, last.path) => last.ret = 0
        /\ IsDir(fs, last.path) =>
             /\ last.ret = ReachableSize(fs, last.denied, SizedTop)
             /\ last.ret <= ReachableSize(fs, {}, SizedTop)
             /\ (Below(fs, SizedTop) \cap last.denied = {})
                  => last.ret = ReachableSize(fs, {}, SizedTop)

\* one subdirectory and one file elsewhere cannot be read; the rest is summed
C11_Witness ==
    /\ last.op = "folder_size"
    /\ fs = LinkTree
    /\ last.path = WorkDir
    /\ last.denied = {WorkDir \o <<"sub", "deep">>, Join(WorkDir, "a.bin")}
    /\ last.ret = 16
    /\ ReachableSize(fs, {}, WorkDir) = 26

(***************************************************************************)
(* C12.  From the same filesystem state, a dry run of clean_temp returns   *)
(* the byte total a real run of clean_temp returns, and likewise for       *)
(* clean_browser_cache: a dry run changes nothing, so a real run that      *)
(* follows a dry run of the same operation starts from the same state and  *)
(* returns the same total, also when entries cannot be deleted and when    *)
(* several junk locations are the same directory.                          *)
(***************************************************************************)
MeasuringOps == {"clean_temp", "clean_browser_cache"}

C12_DryRunTotalEqualsRealTotal ==
    [][(/\ last.op \in MeasuringOps
        /\ last.dry
        /\ fs = last.pre
        /\ last'.op = last.op
        /\ ~last'.dry)
       => last'.ret = last.ret]_vars

(***************************************************************************)
(* C13.  A real clean_environment of an entry with a cleanup command,      *)
(* however the command ends (exit 0, non-zero exit, timeout, could not be  *)
(* started), returns a number, and when the entry's path still exists      *)
(* after the command it returns the size the path then has and removes the *)
(* path recursively.  Read off the state: either the command itself took   *)
(* the path away, or the call measured and removed what was there.         *)
(***************************************************************************)
RealEnvCleanWithCommand ==
    last.op = "clean_environment" /\ ~last.dry /\ last.cmds # <<>>

CommandRemovedPath ==
    /\ fs = Without(last.pre, Below(last.pre, last.path))
    /\ last.ret = 0

MeasuredAndRemoved ==
    /\ fs = Rmtree(last.pre, last.path, locked)
    /\ last.ret = GetDirectorySize(last.pre, NoneDenied, last.path)

C13_CommandOutcomeNeverBlocksRemoval ==
    RealEnvCleanWithCommand =>
        /\ last.ret \in Nat
        /\ Exists(last.pre, last.path) => (CommandRemovedPath \/ MeasuredAndRemoved)

(***************************************************************************)
(* C14.  In a real clean_system_cache every service that was stopped is    *)
(* afterwards attempted to be restarted, on every path through the call,   *)
(* also when a later stop command, the size computation or the deletion    *)
(* fails.  Read off the state: a service that ran before the call and does *)
(* not run after it has had its start command attempted.                   *)
(***************************************************************************)
RealSystemClean == last.op = "clean_system_cache" /\ ~last.dry

Attempted(cmd) == \E i \in 1..Len(last.cmds) : last.cmds[i] = cmd

LeftStopped(s) == last.preServices[s] /\ ~services[s]

C14_StoppedServicesAreRestarted ==
    RealSystemClean =>
        \A s \in ServiceNames : LeftStopped(s) => Attempted("net start " \o s)

(***************************************************************************)
(* C15.  The priority of a suggestion.  As stated: 'high' when the summed  *)
(* size is >= 1 GiB, 'medium' when it is >= 500 MiB and below 1 GiB, 'low' *)
(* otherwise, also at the threshold values themselves.  As amended: 'high' *)
(* when the summed size is above 1 GiB, 'medium' when it is above 500 MiB  *)
(* and at most 1 GiB, 'low' otherwise: a sum of exactly 1 GiB is 'medium', *)
(* a sum of exactly 500 MiB is 'low'.                                      *)
(***************************************************************************)
Suggested == last.op = "suggest"

C15_PriorityAsStated ==
    Suggested =>
        \A i \in 1..Len(last.ret) :
            LET t == last.ret[i].total_size
            IN  last.ret[i].priority =
                    IF t >= 1073741824 THEN "high"
                    ELSE IF t >= 524288000 THEN "medium"
                    ELSE "low"

C15_PriorityAboveThresholds ==
    Suggested =>
        \A i \in 1..Len(last.ret) :
            LET t == last.ret[i].total_size
            IN  last.ret[i].priority =
                    IF t > 1073741824 THEN "high"
                    ELSE IF t > 524288000 THEN "medium"
                    ELSE "low"

\* one group sums to exactly 1 GiB, another to exactly 500 MiB
C15_Witness ==
    /\ Suggested
    /\ Len(last.ret) = 2
    /\ last.ret[1].total_size = 1073741824
    /\ last.ret[1].priority = "medium"
    /\ last.ret[2].total_size = 524288000
    /\ last.ret[2].priority = "low"

(***************************************************************************)
(* C16.  get_environment_suggestions returns exactly one suggestion per    *)
(* category present in its input; the suggestion's count is the number of  *)
(* entries of the category and its total size the sum of their sizes, so   *)
(* the counts add up to the length of the input; the suggestions are in    *)
(* non-increasing order of total size.                                     *)
(***************************************************************************)
EntriesOf(category) == {k \in 1..Len(last.environments) : last.environments[k].type = category}

RECURSIVE SizeOfEntries(_)
SizeOfEntries(K) ==
    IF K = {} THEN 0
    ELSE LET k == CHOOSE x \in K : TRUE
         IN  last.environments[k].size + SizeOfEntries(K \ {k})

RECURSIVE SumOfCounts(_, _)
SumOfCounts(ret, i) == IF i > Len(ret) THEN 0 ELSE ret[i].count + SumOfCounts(ret, i + 1)

C16_OneSuggestionPerCategory ==
    Suggested =>
        /\ {last.ret[i].type : i \in 1..Len(last.ret)}
             = {last.environments[k].type : k \in 1..Len(last.environments)}
        /\ \A i, j \in 1..Len(last.ret) : last.ret[i].type = last.ret[j].type => i = j
        /\ \A i \in 1..Len(last.ret) :
             /\ last.ret[i].count = Cardinality(EntriesOf(last.ret[i].type))
             /\ last.ret[i].total_size = SizeOfEntries(EntriesOf(last.ret[i].type))
        /\ SumOfCounts(last.ret, 1) = Len(last.environments)
        /\ \A i, j \in 1..Len(last.ret) :
             i < j => last.ret[i].total_size >= last.ret[j].total_size

\* two categories, the larger one made of two entries and given last
C16_Witness ==
    /\ Suggested
    /\ Len(last.environments) = 3
    /\ last.environments[1].type = "NPM"
    /\ Len(last.ret) = 2
    /\ last.ret[1].count = 2
    /\ last.ret[1].type # "NPM"
    /\ last.ret[1].total_size > last.ret[2].total_size

(***************************************************************************)
(* C17.  A filesystem error in one subtree during a scan (a directory that *)
(* cannot be listed, a file that cannot be measured) never makes the call  *)
(* raise and never takes away the report of a directory outside that       *)
(* subtree: the call returns a list; a directory that the same scan        *)
(* without errors reports, and that neither lies in nor contains a failing *)
(* entry, is reported just the same; and every directory that can be got   *)
(* to and whose readable content reaches min_size is reported.             *)
(***************************************************************************)
Scanned == last.op = "scan"

Reported(ret, p) == \E i \in 1..Len(ret) : ret[i].path = PathStr(p)

\* the directories a walk from root gets to: no protected and no unreadable
\* directory on the way from root to p, p included
ScanReachable(f, denied, root) ==
    {p \in DOMAIN f :
        /\ root \in DOMAIN f /\ f[root].kind = "dir"
        /\ IsUnder(root, p)
        /\ f[p].kind = "dir"
        /\ \A k \in Len(root)..Len(p) :
             /\ ~UnderProtected(PathStr(SubSeq(p, 1, k)))
             /\ SubSeq(p, 1, k) \notin denied}

\* p neither lies in nor contains an entry that fails
ClearOfErrors(p, denied) ==
    \A d \in denied : ~IsUnder(d, p) /\ ~IsUnder(p, d)

C17_ErrorsStayInTheirSubtree ==
    Scanned =>
        LET clean == ScanDirectory(fs, {}, last.path, last.min_size)
        IN  /\ DOMAIN last.ret = 1..Len(last.ret)
            /\ \A p \in ScanReachable(fs, {}, last.path) :
                 (Reported(clean, p) /\ ClearOfErrors(p, last.denied))
                    => \E i \in 1..Len(last.ret), j \in 1..Len(clean) :
                         last.ret[i] = clean[j] /\ clean[j].path = PathStr(p)
            /\ \A p \in ScanReachable(fs, last.denied, last.path) :
                 ReachableSize(fs, last.denied, p) >= last.min_size
                    => Reported(last.ret, p)

\* C:\Users cannot be listed; the directories beside it are reported
C17_Witness ==
    /\ Scanned
    /\ fs = SystemTree
    /\ last.path = <<"C:">>
    /\ last.denied = {<<"C:", "Users">>}
    /\ last.min_size = 100 * MiB
    /\ Reported(last.ret, <<"C:", "Program Files", "App">>)
    /\ Reported(last.ret, <<"C:", "Windows", "Temp">>)
    /\ ~Reported(last.ret, <<"C:", "Users", "u", "Downloads">>)
    /\ Reported(ScanDirectory(fs, {}, last.path, last.min_size),
                <<"C:", "Users", "u", "Downloads">>)

(***************************************************************************)
(* C20.  A scan reports exactly once every directory that can be got to    *)
(* from the root without passing through a protected directory, is not     *)
(* protected itself and has aggregate size >= min_size, and nothing else;  *)
(* a directory and its ancestor are both reported when both reach          *)
(* min_size; every report carries the directory's own full aggregate size  *)
(* and its classifier label.                                               *)
(***************************************************************************)
DueReports ==
    {p \in ScanReachable(fs, last.denied, last.path) :
        ReachableSize(fs, last.denied, p) >= last.min_size}

C20_EveryQualifyingDirectoryOnce ==
    Scanned =>
        /\ {last.ret[i].path : i \in 1..Len(last.ret)} = {PathStr(p) : p \in DueReports}
        /\ Len(last.ret) = Cardinality(DueReports)
        /\ \A p \in DueReports : \E i \in 1..Len(last.ret) :
             /\ last.ret[i].path = PathStr(p)
             /\ last.ret[i].size = ReachableSize(fs, last.denied, p)
             /\ last.ret[i].type = IdentifyFolderType(PathStr(p))

\* a directory, its parent and its grandparent are all reported, each with
\* its own size; a protected directory large enough is not
C20_Witness ==
    /\ Scanned
    /\ fs = SystemTree
    /\ last.denied = {}
    /\ last.path = <<"C:", "Users">>
    /\ last.min_size = 125 * MiB
    /\ PathsAndSizes(last.ret) =
         <<<<"C:\\Users", 236 * MiB + 1>>, <<"C:\\Users\\u", 134 * MiB + 1>>,
           <<"C:\\Users\\u\\Downloads", 134 * MiB>>>>
    /\ last.ret[3].type = "Downloads folder"

(***************************************************************************)
(* C18.  get_drive_info returns an entry only for fixed volumes whose      *)
(* usage could be read; a volume that is not fixed, or whose query fails,  *)
(* is left out, the call still returns its list, and no other volume is    *)
(* lost: every fixed volume with readable usage has its entry, with the    *)
(* figures that were read.                                                 *)
(***************************************************************************)
DrivesListed == last.op = "drive_info"

DriveText(letter) == letter \o ":\\"

Fixed(letter) == last.volumes[letter].present /\ last.volumes[letter].type = "fixed"

Readable(letter) == last.volumes[letter].usage.ok

EntriesFor(letter) == {i \in 1..Len(last.ret) : last.ret[i].drive = DriveText(letter)}

C18_OnlyFixedReadableVolumes ==
    DrivesListed =>
        /\ DOMAIN last.ret = 1..Len(last.ret)
        /\ \A i \in 1..Len(last.ret) : \E letter \in LetterSet :
             /\ last.ret[i].drive = DriveText(letter)
             /\ Fixed(letter) /\ Readable(letter)
             /\ last.ret[i].total = last.volumes[letter].usage.total
             /\ last.ret[i].used = last.volumes[letter].usage.used
             /\ last.ret[i].free = last.volumes[letter].usage.free
        /\ \A letter \in LetterSet :
             IF Fixed(letter) /\ Readable(letter) /\ last.volumes[letter].usage.total > 0
             THEN Cardinality(EntriesFor(letter)) = 1
             ELSE EntriesFor(letter) = {}

\* C: is fixed and readable, D: is a network share, E: is fixed but its
\* query fails: only C: is listed
C18_Witness ==
    /\ DrivesListed
    /\ Fixed("C") /\ Readable("C")
    /\ last.volumes["D"].present /\ last.volumes["D"].type = "remote"
    /\ Fixed("E") /\ ~Readable("E")
    /\ Len(last.ret) = 1
    /\ last.ret[1].drive = "C:\\"
    /\ last.ret[1].total = 100

(***************************************************************************)
(* C19.  What _is_system_critical answers.  As stated: true exactly when   *)
(* the lower-cased path starts with a protected location; a path that only *)
(* has a protected location somewhere after its beginning is not critical. *)
(* As amended: true exactly when a protected location occurs in the        *)
(* lower-cased path, at its beginning or anywhere after it; so every path  *)
(* that starts with a protected location is critical, and so is a path     *)
(* that has one further in.                                                *)
(***************************************************************************)
CriticalAsked == last.op = "is_critical"

\* a protected location starts at position k of the lower-cased text
ProtectedAt(text, k) ==
    \E c \in CriticalPaths : StartsWith(SubSeq(Lower(text), k, Len(text)), c)

C19_CriticalIffPrefix ==
    CriticalAsked => (last.ret = ProtectedAt(last.text, 1))

C19_CriticalIffOccurs ==
    CriticalAsked =>
        /\ ProtectedAt(last.text, 1) => last.ret = TRUE
        /\ last.ret = (\E k \in 1..Len(last.text) : ProtectedAt(last.text, k))

\* an extended-length path: the protected location starts at position 5
C19_Witness ==
    /\ CriticalAsked
    /\ last.text = "\\\\?\\C:\\Windows\\System32\\drivers"
    /\ ~ProtectedAt(last.text, 1)
    /\ ProtectedAt(last.text, 5)
    /\ last.ret = TRUE

(***************************************************************************)
(* C21.  In a real run of clean_temp, clean_browser_cache or               *)
(* clean_system_cache the returned total is the sum of the sizes of the    *)
(* entries that were actually removed: a directory of which only a part    *)
(* could be deleted contributes the bytes that are gone, no more.  Read    *)
(* off the state: the total equals the sizes, before the call, of the      *)
(* files that are no longer there after it.                                *)
(***************************************************************************)
CleaningOps == {"clean_temp", "clean_browser_cache", "clean_system_cache"}

RemovedBytes == SumSizes(last.pre, DOMAIN last.pre \ DOMAIN fs)

C21_TotalIsWhatWasRemoved ==
    (last.op \in CleaningOps /\ ~last.dry) => last.ret = RemovedBytes

(***************************************************************************)
(* C22.  In a real clean_system_cache no failure of an external step (the  *)
(* disk-cleanup tool failing, timing out or being absent, a service stop   *)
(* command failing) prevents the update-cache download folder from being   *)
(* measured and deleted and its size from being returned.  Read off the    *)
(* state: whatever the external steps did, a download folder that was      *)
(* there before the call has been removed and its size is the total.       *)
(***************************************************************************)
DownloadFolderCleared ==
    /\ fs = Rmtree(last.pre, SoftwareDist, locked)
    /\ last.ret = GetDirectorySize(last.pre, NoneDenied, SoftwareDist)

C22_ExternalFailureNeverBlocksDeletion ==
    (RealSystemClean /\ Exists(last.pre, SoftwareDist)) => DownloadFolderCleared

(***************************************************************************)
(* The operations that wait on external commands, step by step             *)
(* (cleaner.py clean_system_cache, env_cleaner.py clean_environment).      *)
(* subprocess.run blocks until the command returns; with timeout=n it      *)
(* kills the command after n seconds and raises TimeoutExpired.  The run   *)
(* in progress is kept in last: the operation, the position in its         *)
(* sequence of steps, whether it is blocked in subprocess.run, and the     *)
(* commands that, on this machine, never return.                           *)
(***************************************************************************)
\* cleaner.py:92, timeout=300
CleanmgrTimeout == 300

\* env_cleaner.py:126, timeout=60
CommandTimeout == 60

\* a subprocess.run call without a timeout argument
NoTimeout == <<>>

CommandStep(name, timeout) == [kind |-> "command", name |-> name, timeout |-> timeout]

RemovalStep(path) == [kind |-> "removal", name |-> PathStr(path), timeout |-> NoTimeout]

\* subprocess.run(['net', ...], check=False)
NetCommand(name) == CommandStep(name, NoTimeout)

\* the body of the try block of a real clean_system_cache, in order
SystemCacheSteps ==
    <<CommandStep("cleanmgr", <<CleanmgrTimeout>>)>>
    \o [i \in 1..Len(StopCmds) |-> NetCommand(StopCmds[i])]
    \o <<RemovalStep(SoftwareDist)>>
    \o [i \in 1..Len(StartCmds) |-> NetCommand(StartCmds[i])]

\* a real clean_environment of an entry that has a cleanup command
EnvironmentSteps ==
    <<CommandStep("cleanup command", <<CommandTimeout>>), RemovalStep(NpmCache)>>

StepsOf(op) == IF op = "clean_system_cache" THEN SystemCacheSteps ELSE EnvironmentSteps

\* Where the run goes on after TimeoutExpired: clean_environment catches it
\* around the command and falls back to the manual deletion; in
\* clean_system_cache it leaves the try block.
AfterExpiry(op, pc) == IF op = "clean_environment" THEN pc + 1 ELSE Len(StepsOf(op)) + 1

\* the services a net command that returned leaves running
AfterNet(svc, name) ==
    [s \in DOMAIN svc |->
        IF name = "net stop " \o s THEN FALSE
        ELSE IF name = "net start " \o s THEN TRUE
        ELSE svc[s]]

CommandNames(op) ==
    {StepsOf(op)[i].name : i \in {j \in 1..Len(StepsOf(op)) : StepsOf(op)[j].kind = "command"}}

\* how many commands may never return in one run
MaxHanging == 1

Run(op, hangs) ==
    [op |-> op, path |-> <<>>, text |-> "", drive |-> <<>>, dry |-> FALSE, min_size |-> 0,
     ret |-> 0, cmds |-> <<>>, pre |-> JunkFS,
     preServices |-> [s \in ServiceNames |-> TRUE],
     pc |-> 1, waiting |-> FALSE, hangs |-> hangs]

InitRun ==
    /\ fs = JunkFS
    /\ locked \in {{}, {Join(SoftwareDist, "u.cab")}}
    /\ services = [s \in ServiceNames |-> TRUE]
    /\ env = TypicalEnv
    /\ \E op \in {"clean_system_cache", "clean_environment"} :
         \E hangs \in {H \in SUBSET CommandNames(op) : Cardinality(H) <= MaxHanging} :
            last = Run(op, hangs)

Running == last.pc <= Len(StepsOf(last.op))

CurrentStep == StepsOf(last.op)[last.pc]

\* subprocess.run starts the command and blocks
Launch ==
    /\ Running /\ ~last.waiting /\ CurrentStep.kind = "command"
    /\ last' = [last EXCEPT !.waiting = TRUE, !.cmds = Append(@, CurrentStep.name)]
    /\ UNCHANGED <<fs, locked, services, env>>

\* the command returns, with whatever exit status (check=False)
Return ==
    /\ Running /\ last.waiting /\ CurrentStep.name \notin last.hangs
    /\ services' = AfterNet(services, CurrentStep.name)
    /\ last' = [last EXCEPT !.waiting = FALSE, !.pc = @ + 1]
    /\ UNCHANGED <<fs, locked, env>>

\* the timeout of subprocess.run expires: the command is killed and
\* TimeoutExpired is raised
Expire ==
    /\ Running /\ last.waiting /\ CurrentStep.timeout # NoTimeout
    /\ last' = [last EXCEPT !.waiting = FALSE, !.pc = AfterExpiry(last.op, @)]
    /\ UNCHANGED <<fs, locked, services, env>>

\* if os.path.exists(path): size = _get_directory_size(path); rmtree(path)
Remove ==
    /\ Running /\ CurrentStep.kind = "removal"
    /\ LET path == IF last.op = "clean_system_cache" THEN SoftwareDist ELSE NpmCache
       IN  /\ fs' = IF Exists(fs, path) THEN Rmtree(fs, path, locked) ELSE fs
           /\ last' = [last EXCEPT !.pc = @ + 1,
                                   !.ret = IF Exists(fs, path)
                                           THEN @ + GetDirectorySize(fs, NoneDenied, path)
                                           ELSE @]
    /\ UNCHANGED <<locked, services, env>>

NextRun == Launch \/ Return \/ Expire \/ Remove

\* The interpreter keeps running the operation, a command that is able to
\* return does so, and a timeout that is set does expire.
SpecRun == InitRun /\ [][NextRun]_vars /\ WF_vars(NextRun)

(***************************************************************************)
(* C23.  Every external command clean_environment and clean_system_cache   *)
(* run (cleanup helper, disk-cleanup tool, each service stop and start)    *)
(* is waited for a bounded time and abandoned on expiry, so that both      *)
(* operations terminate even when an external command never returns:       *)
(* every run eventually gets past its last step.                           *)
(***************************************************************************)
C23_RunsTerminate == <>(~Running)

(***************************************************************************)
(* C24.  Size aggregation never descends into a directory reached through  *)
(* a symbolic link: on a tree that contains directory links, one of them   *)
(* leading to an ancestor, the aggregation returns a number and counts     *)
(* each file at most once.  Read off the result: it is at most the sizes   *)
(* of the entries below the directory, each taken once (and exactly that   *)
(* when every entry can be read), and it is what the same call returns     *)
(* once the directory links are taken out of the tree.                     *)
(***************************************************************************)
DirLinksBelow(f, top) == {q \in Below(f, top) : f[q].kind = "link" /\ IsDir(f, q)}

\* the entries below top that are files, or links to files: each one once
FileEntriesBelow(f, top) == {q \in Below(f, top) : f[q].kind # "dir" /\ IsFile(f, q)}

SizeWithoutLinks(f, denied, top) ==
    LET g == Without(f, DirLinksBelow(f, top))
    IN  IF last.op = "folder_size" THEN GetFolderSize(g, denied, top)
        ELSE GetDirectorySize(g, denied, top)

C24_DirectoryLinksAreNotEntered ==
    (SizeCall /\ IsDir(fs, last.path)) =>
        /\ last.ret \in Nat
        /\ last.ret <= SumSizes(fs, FileEntriesBelow(fs, SizedTop))
        /\ (Below(fs, SizedTop) \cap last.denied = {})
             => last.ret = SumSizes(fs, FileEntriesBelow(fs, SizedTop))
        /\ last.ret = SizeWithoutLinks(fs, last.denied, SizedTop)

\* the tree holds a link to its own root and a link to a directory outside;
\* the file outside is counted once, through the file link
C24_Witness ==
    /\ last.op = "directory_size"
    /\ fs = LinkTree
    /\ last.path = WorkDir
    /\ last.denied = {}
    /\ WorkDir \o <<"sub", "up">> \in DirLinksBelow(fs, WorkDir)
    /\ Deref(fs, WorkDir \o <<"sub", "up">>, MaxLinkHops) = WorkDir
    /\ Join(WorkDir, "ext") \in DirLinksBelow(fs, WorkDir)
    /\ last.ret = 26

(***************************************************************************)
(* EnvironmentCleaner.find_environments and _scan_directory                *)
(* (env_cleaner.py).                                                       *)
(***************************************************************************)
\* EnvironmentCleaner.__init__: self.environments, in insertion order
Environments ==
    <<[env_key |-> "node_modules", type |-> "Node.js", patterns |-> <<"node_modules">>,
       description |-> "Node.js package cache", command |-> "npm cache clean --force"],
      [env_key |-> "python_cache", type |-> "Python", patterns |-> <<"__pycache__", ".pyc">>,
       description |-> "Python bytecode cache", command |-> ""],
      [env_key |-> "pip_cache", type |-> "Python", patterns |-> <<".pip", "pip-cache">>,
       description |-> "Pip package cache", command |-> "pip cache purge"],
      [env_key |-> "conda_env", type |-> "Conda",
       patterns |-> <<"miniconda", "anaconda", ".conda">>,
       description |-> "Conda environments", command |-> "conda clean --all"],
      [env_key |-> "npm_cache", type |-> "NPM", patterns |-> <<".npm">>,
       description |-> "NPM cache directory", command |-> "npm cache clean --force"],
      [env_key |-> "gradle_cache", type |-> "Gradle", patterns |-> <<".gradle">>,
       description |-> "Gradle build cache", command |-> ""],
      [env_key |-> "maven_cache", type |-> "Maven", patterns |-> <<".m2">>,
       description |-> "Maven repository cache", command |-> ""]>>

\* find_environments: search_paths, "~" being the user's home directory
SearchPaths(home) ==
    <<home, <<"C:">>, home \o <<"AppData", "Local">>, home \o <<"AppData", "Roaming">>>>

\* _scan_directory: max_depth
MaxDepth == 3

\* str.count(os.sep)
RECURSIVE CountSep(_)
CountSep(s) ==
    IF Len(s) = 0 THEN 0
    ELSE (IF SubSeq(s, 1, 1) = Sep THEN 1 ELSE 0) + CountSep(SubSeq(s, 2, Len(s)))

\* depth = root[len(path):].count(os.sep)
EnvDepth(path, root) == CountSep(SubSeq(root, Len(path) + 1, Len(root)))

\* if depth > max_depth: dirs.clear(); continue
TooDeep(path, root) == EnvDepth(PathStr(path), PathStr(root)) > MaxDepth

\* The roots os.walk(path) yields that get past the depth test, top-down.
\* A root that fails the test has its dirs cleared, so nothing below it is
\* yielded; os.walk does not descend into a link.
RECURSIVE EnvWalk(_, _, _)
RECURSIVE EnvWalkAll(_, _, _)
EnvWalk(f, path, root) ==
    IF TooDeep(path, root) THEN <<>>
    ELSE <<root>> \o EnvWalkAll(f, path, SubDirs(f, root))

EnvWalkAll(f, path, S) ==
    IF S = {} THEN <<>>
    ELSE LET d == CHOOSE x \in S : TRUE
         IN  EnvWalk(f, path, d) \o EnvWalkAll(f, path, S \ {d})

\* the dirs of one step of os.walk: the names of the subdirectories and of
\* the links to directories
DirNames(f, root) == {Name(q) : q \in {c \in Children(f, root) : IsDir(f, c)}}

\* pattern in root.lower() or any(pattern in d.lower() for d in dirs)
EnvPatternMatches(f, pattern, root) ==
    \/ Contains(Lower(PathStr(root)), pattern)
    \/ \E d \in DirNames(f, root) : Contains(Lower(d), pattern)

\* a floor that keeps a directory of exactly the floor's size
AboveFloor_Inclusive(size) == size >= 50 * MiB

\* if size > 50 * 1024 * 1024:  # Only report if > 50MB
AboveFloor(size) == size > 50 * 1024 * 1024

EnvEntry(f, e, root, size) ==
    [name |-> Name(root), type |-> e.type, path |-> PathStr(root), size |-> size,
     description |-> e.description, command |-> e.command, env_key |-> e.env_key]

\* the loop over one environment's patterns, from the j-th on: one entry for
\* every pattern that matches
RECURSIVE FoundForPatterns(_, _, _, _)
FoundForPatterns(f, e, root, j) ==
    IF j > Len(e.patterns) THEN <<>>
    ELSE (IF EnvPatternMatches(f, e.patterns[j], root)
             /\ AboveFloor(GetDirectorySize(f, NoneDenied, root))
          THEN <<EnvEntry(f, e, root, GetDirectorySize(f, NoneDenied, root))>>
          ELSE <<>>)
         \o FoundForPatterns(f, e, root, j + 1)

\* the loop over self.environments, from the i-th on
RECURSIVE FoundForEnvironments(_, _, _)
FoundForEnvironments(f, root, i) ==
    IF i > Len(Environments) THEN <<>>
    ELSE FoundForPatterns(f, Environments[i], root, 1)
         \o FoundForEnvironments(f, root, i + 1)

RECURSIVE FoundAt(_, _, _)
FoundAt(f, roots, k) ==
    IF k > Len(roots) THEN <<>>
    ELSE FoundForEnvironments(f, roots[k], 1) \o FoundAt(f, roots, k + 1)

\* EnvironmentCleaner._scan_directory
EnvScanDirectory(f, path) ==
    IF path \in DOMAIN f /\ f[path].kind = "dir"
    THEN FoundAt(f, EnvWalk(f, path, path), 1)
    ELSE <<>>

\* the loop of find_environments over search_paths, from the i-th on
RECURSIVE FoundIn(_, _, _)
FoundIn(f, search_paths, i) ==
    IF i > Len(search_paths) THEN <<>>
    ELSE (IF Exists(f, search_paths[i]) THEN EnvScanDirectory(f, search_paths[i]) ELSE <<>>)
         \o FoundIn(f, search_paths, i + 1)

\* EnvironmentCleaner.find_environments
FindEnvironments(f, home) ==
    LET found_envs == FoundIn(f, SearchPaths(home), 1)
    IN  SortBySizeDesc(found_envs, Len(found_envs))

(***************************************************************************)
(* The trees the environment search is run on: one directory with one file *)
(* in it, put at different depths below the home directory and the volume  *)
(* root, next to a small file of its parent's.                             *)
(***************************************************************************)
\* the directories the candidate is put into
Places ==
    {Home, Join(Home, "proj"), Home \o <<"a", "b">>, Home \o <<"a", "b", "c">>,
     <<"C:", "dev">>, <<"C:", "w", "x", "y">>, Local}

\* names that carry a signature, in the case they are met with, and one that
\* carries none
CandidateNames == {"node_modules", ".gradle", "__pycache__", "Miniconda3", "src"}

CandidateSizes == {50 * MiB - 1, 50 * MiB, 50 * MiB + 1, 60 * MiB}

EnvTree(place, name, size) ==
    WithParents(
        (place \o <<name, "data.bin">> :> File(size))
        @@ (Join(place, "notes.txt") :> File(3))
        @@ (Local :> Dir) @@ (Roaming :> Dir))

EnvTrees == {EnvTree(place, name, size) :
                place \in Places, name \in CandidateNames, size \in CandidateSizes}

\* find_environments, and _scan_directory from a root without and one with
\* a trailing separator
EnvRequests ==
    {Request("call find_environments", Home, PathStr(Home), 0, {})}
    \cup {Request("call scan_environments", path, PathStr(path), 0, {}) :
            path \in {Home, <<"C:">>}}

InitEnvs ==
    /\ last \in EnvRequests
    /\ fs \in EnvTrees
    /\ locked = {}
    /\ services = [s \in ServiceNames |-> TRUE]
    /\ env = TypicalEnv

Find ==
    /\ last.op = "call find_environments"
    /\ last' = Returned("find_environments", FindEnvironments(fs, last.path))
    /\ UNCHANGED <<fs, locked, services, env>>

ScanEnvs ==
    /\ last.op = "call scan_environments"
    /\ last' = Returned("scan_environments", EnvScanDirectory(fs, last.path))
    /\ UNCHANGED <<fs, locked, services, env>>

NextEnvs == Find \/ ScanEnvs

SpecEnvs == InitEnvs /\ [][NextEnvs]_vars

(***************************************************************************)
(* C25.  Every entry find_environments returns is a directory whose own    *)
(* name or path contains one of the signatures of the entry's category; a  *)
(* directory that only has a child directory matching a signature is not   *)
(* reported.                                                               *)
(***************************************************************************)
SignaturesOf(env_key) ==
    LET e == Environments[CHOOSE i \in 1..Len(Environments) :
                              Environments[i].env_key = env_key]
    IN  {e.patterns[j] : j \in 1..Len(e.patterns)}

CarriesSignature(entry) ==
    \E pattern \in SignaturesOf(entry.env_key) : Contains(Lower(entry.path), pattern)

C25_OnlyMatchingDirectoriesReported ==
    last.op = "find_environments" =>
        \A i \in 1..Len(last.ret) : CarriesSignature(last.ret[i])

(***************************************************************************)
(* C26.  For every search root, whether or not its path string ends with a *)
(* path separator, the environment walk examines and reports only          *)
(* directories at most 3 levels below that root.  Read off the result of   *)
(* _scan_directory: every reported path lies at most 3 components below    *)
(* the root the scan was started from.                                     *)
(***************************************************************************)
\* how many components the directory with the text path_text lies below root
LevelsBelow(root, path_text) ==
    CHOOSE n \in 0..8 :
        \E p \in DOMAIN fs : PathStr(p) = path_text /\ Len(p) = Len(root) + n

C26_ReportsWithinThreeLevels ==
    last.op = "scan_environments" =>
        \A i \in 1..Len(last.ret) : LevelsBelow(last.path, last.ret[i].path) <= MaxDepth

(***************************************************************************)
(* C27.  The size floor and the order of find_environments.  As stated:    *)
(* it discards exactly the matching directories whose size is below the    *)
(* 50 MiB floor (one of exactly 50 MiB is kept) and returns the kept       *)
(* entries ordered by size, largest first.  As amended: it discards        *)
(* exactly the matching directories whose size is at most 50 MiB (one of   *)
(* exactly 50 MiB is discarded, one of 50 MiB + 1 byte is kept) and        *)
(* returns the kept entries ordered by size, largest first.  The matching  *)
(* directories looked at are those that carry a signature in their own     *)
(* path and lie at most 3 levels below the home directory.                 *)
(***************************************************************************)
Floor == 50 * MiB

Found == last.op = "find_environments"

\* the directories that carry a signature of some category, within reach of
\* the walk from the home directory
MatchingDirs ==
    {p \in DOMAIN fs :
        /\ fs[p].kind = "dir"
        /\ IsUnder(last.path, p) /\ Len(p) <= Len(last.path) + MaxDepth
        /\ \E i \in 1..Len(Environments) :
             \E j \in 1..Len(Environments[i].patterns) :
                Contains(Lower(PathStr(p)), Environments[i].patterns[j])}

Returns(p) == \E i \in 1..Len(last.ret) : last.ret[i].path = PathStr(p)

LargestFirst ==
    \A i \in 1..Len(last.ret) : \A j \in i..Len(last.ret) :
        last.ret[i].size >= last.ret[j].size

C27_KeepsFloorAndAbove ==
    Found =>
        /\ \A i \in 1..Len(last.ret) : last.ret[i].size >= Floor
        /\ \A p \in MatchingDirs :
             Returns(p) <=> GetDirectorySize(fs, NoneDenied, p) >= Floor
        /\ LargestFirst

C27_KeepsAboveFloorOnly ==
    Found =>
        /\ \A i \in 1..Len(last.ret) : last.ret[i].size > Floor
        /\ \A p \in MatchingDirs :
             Returns(p) <=> GetDirectorySize(fs, NoneDenied, p) > Floor
        /\ LargestFirst

\* a matching directory of exactly 50 MiB is left out, while its parent, 3
\* bytes larger, is returned
C27_Witness ==
    /\ Found
    /\ \E p \in MatchingDirs : GetDirectorySize(fs, NoneDenied, p) = Floor /\ ~Returns(p)
    /\ \E i \in 1..Len(last.ret) : last.ret[i].size = Floor + 3

(***************************************************************************)
(* C28.  In every state reachable by any sequence of move and restore      *)
(* calls, calls that fail at any step included, the relocated subtree's    *)
(* content exists in full at the original path or at the target path: no   *)
(* failure loses the data or leaves it only partly present at both places. *)
(***************************************************************************)
\* what the directory to relocate holds before the first call
Content == Subtree(BaseFS, Proj)

\* the whole content is at p
HeldAt(f, p) == \A r \in DOMAIN Content : (p \o r) \in DOMAIN f /\ f[p \o r] = Content[r]

Relocated == TargetPath(Proj, <<"D:">>)

C28_ContentIsWholeSomewhere ==
    HeldAt(fs, Proj) \/ HeldAt(fs, Relocated)

\* a restore that failed half way through copying back: part of the content
\* is at the original path, all of it still at the target
C28_Witness ==
    /\ RealRestore
    /\ last.ret = FailureOutcome
    /\ Proj \in DOMAIN fs /\ fs[Proj].kind = "dir"
    /\ ~HeldAt(fs, Proj)
    /\ HeldAt(fs, Relocated)

(***************************************************************************)
(* C29.  Whenever a real restore returns failure, the filesystem is as it  *)
(* was before the call: the path is still a link resolving to the          *)
(* relocated subtree and the subtree is still at its target location.      *)
(***************************************************************************)
C29_FailedRestoreChangesNothing ==
    (RealRestore /\ last.ret = FailureOutcome) => fs = last.pre

(***************************************************************************)
(* C30.  What a dry run of a move returns when the target is taken.  As    *)
(* stated: from the same filesystem state a dry-run move returns success   *)
(* only if the real run would pass its precondition checks; when the       *)
(* source exists and the computed target path already exists, the dry run  *)
(* reports failure as the real run does.  As amended: a dry-run move       *)
(* checks the source only; it returns success exactly when the source      *)
(* exists, also when the computed target path already exists, where the    *)
(* real run from the same state returns failure.                           *)
(***************************************************************************)
DryMove == last.op = "move" /\ last.dry

C30_DryRunFailsOnTakenTarget ==
    (DryMove /\ Exists(last.pre, last.path) /\ LastTarget \in DOMAIN last.pre)
        => last.ret = FailureOutcome

C30_DryRunChecksSourceOnly ==
    /\ [](DryMove => (last.ret = SuccessOutcome <=> Exists(last.pre, last.path)))
    /\ [][(/\ DryMove
           /\ fs = last.pre
           /\ LastTarget \in DOMAIN fs
           /\ last'.op = "move" /\ ~last'.dry
           /\ last'.path = last.path /\ last'.drive = last.drive)
          => last'.ret = FailureOutcome]_vars

\* a dry run that reports success for a move onto a taken target
C30_Witness ==
    /\ DryMove
    /\ last.path = Proj
    /\ LastTarget \in DOMAIN last.pre
    /\ last.pre[LastTarget].kind = "dir"
    /\ last.ret = SuccessOutcome

====
